---- MODULE Spec2Model ----
(***************************************************************************)
(* Verification model of agent-skills-guard (src-tauri):                   *)
(*   - the plugin lifecycle orchestrator and the reconciliation against    *)
(*     the Claude CLI (services/plugin_manager.rs, services/database.rs),  *)
(*   - the security scanner's directory walk and matching                  *)
(*     (security/scanner.rs),                                              *)
(*   - the weighted scorer (security/scanner.rs).                          *)
(* Strings that the code takes apart or puts together (plugin ids, claude  *)
(* ids, CLI output) are sequences of tokens, so that format!/rsplit_once/  *)
(* contains are computed and not assumed.  Option<T> is a sequence of      *)
(* length 0 (None) or 1 (Some).                                            *)
(***************************************************************************)
EXTENDS Integers, Sequences, FiniteSets, TLC

VARIABLES
    store,      \* rows of the plugins table, in rowid order (Database)
    last,       \* the last lifecycle operation: name, inputs, result, CLI commands run
    gate,       \* per plugin id: outcome of the most recent prepare scan
    walk,       \* the scanner's state during one scan_directory_with_options call
    score_in,   \* the list of MatchResult handed to the scorer
    score_out,  \* the scorer's result for score_in (<<>> before it ran)
    driver,     \* the PTY driver's state during one ClaudeCli::run call
    text_in,    \* the CLI output handed to a classifier or to the JSON extraction
    text_out,   \* what was made of text_in (<<>> before it was looked at)
    rescan      \* the locals of a scan command over the installed plugins

vars == <<store, last, gate, walk, score_in, score_out, driver, text_in, text_out, rescan>>

----------------------------------------------------------------------------
(* Option<T> *)

None == <<>>

Some(x) == <<x>>

IsSome(o) == o # <<>>

OrElse(o, alt) == IF o # <<>> THEN o ELSE alt

----------------------------------------------------------------------------
(* Generic sequence helpers *)

Range(s) == { s[i] : i \in 1..Len(s) }

Minimum(a, b) == IF a <= b THEN a ELSE b

\* The sequences of a sequence, in a row
RECURSIVE Flatten(_)
Flatten(pieces) ==
    IF pieces = <<>> THEN <<>> ELSE Head(pieces) \o Flatten(Tail(pieces))

RECURSIVE SeqsUpTo(_, _)
SeqsUpTo(S, n) ==
    IF n = 0 THEN { <<>> }
    ELSE LET shorter == SeqsUpTo(S, n - 1)
         IN  shorter \cup { Append(q, x) : q \in shorter, x \in S }

Maximum(S) == CHOOSE x \in S : \A y \in S : y <= x

----------------------------------------------------------------------------
(* models/plugin.rs *)

\* format!("{}::{}::{}", repository_url, marketplace_name, name)
PluginIdOf(repository_url, marketplace_name, name) ==
    repository_url \o <<"::">> \o marketplace_name \o <<"::">> \o name

\* format!("{}@{}", name, marketplace_name)
PluginSpecOf(name, marketplace_name) == name \o <<"@">> \o marketplace_name

PluginNew(name, repository_url, marketplace_name) ==
    [ id                  |-> PluginIdOf(repository_url, marketplace_name, name),
      claude_id           |-> Some(PluginSpecOf(name, marketplace_name)),
      name                |-> name,
      repository_url      |-> repository_url,
      marketplace_name    |-> marketplace_name,
      discovery_source    |-> Some("repository_scan"),
      installed           |-> FALSE,
      installed_at        |-> None,
      installed_version   |-> None,
      claude_scope        |-> None,
      claude_enabled      |-> None,
      claude_install_path |-> None,
      claude_last_updated |-> None,
      security_score      |-> None,
      security_level      |-> None,
      security_issues     |-> None,
      scanned_at          |-> None,
      staging_path        |-> None,
      install_log         |-> None,
      install_status      |-> None ]

----------------------------------------------------------------------------
(* services/database.rs *)

RECURSIVE WithoutId(_, _)
WithoutId(rows, id) ==
    IF rows = <<>> THEN <<>>
    ELSE IF Head(rows).id = id THEN WithoutId(Tail(rows), id)
         ELSE <<Head(rows)>> \o WithoutId(Tail(rows), id)

\* INSERT OR REPLACE: the row with the same primary key is deleted and the
\* new row gets the next rowid, i.e. it moves to the end of a table scan.
save_plugin(rows, plugin) == Append(WithoutId(rows, plugin.id), plugin)

\* DELETE FROM plugins WHERE id = ?1
delete_plugin(rows, id) == WithoutId(rows, id)

\* SELECT ... FROM plugins (table scan, rowid order)
get_plugins(rows) == rows

HasId(rows, id) == \E i \in 1..Len(rows) : rows[i].id = id

FindById(rows, id) == rows[CHOOSE i \in 1..Len(rows) : rows[i].id = id]

Ids(rows) == { rows[i].id : i \in 1..Len(rows) }

----------------------------------------------------------------------------
(* services/plugin_manager.rs: reconciliation helpers *)

LastIndexOf(s, c) ==
    IF \E i \in 1..Len(s) : s[i] = c
    THEN Maximum({ i \in 1..Len(s) : s[i] = c })
    ELSE 0

\* id.rsplit_once('@'), rejecting an empty name or marketplace.
\* Some(<<name, marketplace>>) or None.
parse_claude_plugin_id(id) ==
    LET at == LastIndexOf(id, "@")
        name == SubSeq(id, 1, at - 1)
        marketplace == SubSeq(id, at + 1, Len(id))
    IN  IF at = 0 THEN None
        ELSE IF name = <<>> \/ marketplace = <<>> THEN None
        ELSE Some(<<name, marketplace>>)

\* The strings that parse as DateTime<Utc>
ValidDates == { "2024-01-01T00:00:00Z", "2024-02-02T00:00:00Z" }

\* value.as_ref().and_then(|s| s.parse().ok())
parse_datetime(value) ==
    IF value = None THEN None
    ELSE IF value[1] \in ValidDates THEN value ELSE None

RECURSIVE TrimStart(_)
TrimStart(s) ==
    IF s # <<>> /\ Head(s) = " " THEN TrimStart(Tail(s)) ELSE s

RECURSIVE TrimEnd(_)
TrimEnd(s) ==
    IF s # <<>> /\ s[Len(s)] = " " THEN TrimEnd(SubSeq(s, 1, Len(s) - 1)) ELSE s

Trim(s) == TrimEnd(TrimStart(s))

GithubPrefix == <<"https://", "github.com/">>

\* entry.repo trimmed; "owner/repo" is turned into a github URL
marketplace_repo_url(entry) ==
    IF entry.repo = None THEN None
    ELSE LET repo == Trim(entry.repo[1])
         IN  IF repo = <<>> THEN None
             ELSE IF Head(repo) \in { "http://", "https://" } THEN Some(repo)
             ELSE Some(GithubPrefix \o repo)

\* marketplace_repo_url_by_name.get(name): a later entry of the same name
\* overwrites an earlier one (HashMap::insert)
RepoUrlByName(marketplaces, name) ==
    LET hits == { i \in 1..Len(marketplaces) :
                    /\ marketplaces[i].name = name
                    /\ marketplace_repo_url(marketplaces[i]) # None }
    IN  IF hits = {} THEN None
        ELSE marketplace_repo_url(marketplaces[Maximum(hits)])

PluginsByClaudeIdPick_First(hits) == CHOOSE x \in hits : \A y \in hits : x <= y

\* plugins_by_claude_id.get(claude_id): the map is filled in table order
\* and a later row with the same claude_id overwrites an earlier one
PluginsByClaudeIdPick(hits) == Maximum(hits)

PluginsByClaudeId(rows, claude_id) ==
    LET hits == { i \in 1..Len(rows) : rows[i].claude_id = Some(claude_id) }
    IN  IF hits = {} THEN None ELSE Some(rows[PluginsByClaudeIdPick(hits)])

\* One iteration of `for entry in installed_plugins`: the record that is
\* saved for the entry, or None when the id cannot be parsed (continue).
SyncEntryRecord(existing, marketplaces, entry) ==
    LET parsed == parse_claude_plugin_id(entry.id)
    IN  IF parsed = None THEN None
        ELSE
        LET plugin_name == parsed[1][1]
            marketplace_name == parsed[1][2]
            repository_url ==
                OrElse(RepoUrlByName(marketplaces, marketplace_name), Some(<<"local">>))[1]
            found == PluginsByClaudeId(existing, entry.id)
            plugin == IF found # None THEN found[1]
                      ELSE [ PluginNew(plugin_name, repository_url, marketplace_name)
                               EXCEPT !.discovery_source = Some("claude_cli") ]
        IN  Some([ plugin EXCEPT
                     !.claude_id = Some(entry.id),
                     !.installed = TRUE,
                     !.installed_version = entry.version,
                     !.claude_scope = entry.scope,
                     !.claude_enabled = entry.enabled,
                     !.claude_install_path = entry.install_path,
                     !.claude_last_updated = parse_datetime(entry.last_updated),
                     !.installed_at = IF plugin.installed_at = None
                                      THEN parse_datetime(entry.installed_at)
                                      ELSE plugin.installed_at,
                     !.marketplace_name = IF plugin.marketplace_name = <<>>
                                          THEN marketplace_name
                                          ELSE plugin.marketplace_name,
                     !.name = IF plugin.name = <<>> THEN plugin_name ELSE plugin.name ])

\* The forward loop: every entry is looked up in the map built before the
\* loop (existing) and saved to the table (rows).
RECURSIVE SyncForward(_, _, _, _)
SyncForward(rows, existing, marketplaces, entries) ==
    IF entries = <<>> THEN rows
    ELSE LET rec == SyncEntryRecord(existing, marketplaces, Head(entries))
             rows1 == IF rec = None THEN rows ELSE save_plugin(rows, rec[1])
         IN  SyncForward(rows1, existing, marketplaces, Tail(entries))

\* installed_claude_ids: every entry id, parseable or not
InstalledClaudeIds(entries) == { entries[i].id : i \in 1..Len(entries) }

ClearedInstall_KeepsClaudeFields(plugin) ==
    [ plugin EXCEPT !.installed = FALSE,
                    !.installed_at = None,
                    !.installed_version = None ]

\* The fields the reverse loop resets before saving the row
ClearedInstall(plugin) ==
    [ plugin EXCEPT !.installed = FALSE,
                    !.installed_at = None,
                    !.installed_version = None,
                    !.claude_scope = None,
                    !.claude_enabled = None,
                    !.claude_install_path = None,
                    !.claude_last_updated = None ]

SyncMustFlip_Never(plugin, installed_claude_ids) == FALSE

\* Whether the reverse loop flips a row back to not-installed
SyncMustFlip(plugin, installed_claude_ids) ==
    /\ plugin.claude_id # None
    /\ plugin.installed
    /\ plugin.claude_id[1] \notin installed_claude_ids

SyncFlip_Deletes(rows, plugin) == delete_plugin(rows, plugin.id)

\* The row is written back as not installed
SyncFlip(rows, plugin) == save_plugin(rows, ClearedInstall(plugin))

\* The reverse loop over the snapshot current_plugins
RECURSIVE SyncReverse(_, _, _)
SyncReverse(rows, current, installed_claude_ids) ==
    IF current = <<>> THEN rows
    ELSE LET plugin == Head(current)
             rows1 == IF SyncMustFlip(plugin, installed_claude_ids)
                      THEN SyncFlip(rows, plugin)
                      ELSE rows
         IN  SyncReverse(rows1, Tail(current), installed_claude_ids)

\* sync_claude_installed_state once both listings are parsed
SyncRows(rows, marketplaces, entries) ==
    LET forward == SyncForward(rows, get_plugins(rows), marketplaces, entries)
    IN  SyncReverse(forward, get_plugins(forward), InstalledClaudeIds(entries))

----------------------------------------------------------------------------
(* services/plugin_manager.rs: classification of the CLI's free text.     *)
(* An output is a sequence of words; contains() is substring search, so a  *)
(* one-word needle is found inside a longer word ("installed" inside       *)
(* "uninstalled") and a several-word needle must line up on word borders.  *)

\* output.to_lowercase(), word by word
LowerWord(w) ==
    CASE w = "Successfully" -> "successfully"
      [] w = "Error"        -> "error"
      [] w = "Failed"       -> "failed"
      [] w = "Plugin"       -> "plugin"
      [] w = "Quick"        -> "quick"
      [] w = "Trust"        -> "trust"
      [] OTHER              -> w

to_lowercase(text) == [ i \in 1..Len(text) |-> LowerWord(text[i]) ]

\* The vocabulary words that occur inside a (lower-case) word
InnerWords(w) ==
    CASE w = "uninstalled"  -> { "uninstalled", "installed" }
      [] w = "successfully" -> { "successfully", "success" }
      [] w = "failure"      -> { "failure" }
      [] OTHER              -> { w }

\* The vocabulary words a word ends with / starts with
SuffixWords(w) == InnerWords(w)

PrefixWords(w) ==
    CASE w = "successfully" -> { "successfully", "success" }
      [] OTHER              -> { w }

\* text.contains(needle), needle a non-empty sequence of words
Contains(text, needle) ==
    LET k == Len(needle)
    IN  \E i \in 1..(Len(text) - k + 1) :
            IF k = 1 THEN needle[1] \in InnerWords(text[i])
            ELSE /\ needle[1] \in SuffixWords(text[i])
                 /\ needle[k] \in PrefixWords(text[i + k - 1])
                 /\ \A j \in 2..(k - 1) : text[i + j - 1] = needle[j]

HasErrorWords_NoError(text) ==
    \/ Contains(text, <<"failed">>)
    \/ Contains(text, <<"failure">>)
    \/ Contains(text, <<"unable", "to">>)

HasErrorWords(text) ==
    \/ Contains(text, <<"error">>)
    \/ Contains(text, <<"failed">>)
    \/ Contains(text, <<"failure">>)
    \/ Contains(text, <<"unable", "to">>)
    \/ Contains(text, <<"could", "not">>)

parse_marketplace_add_output(output) ==
    LET text == to_lowercase(output)
        already == /\ Contains(text, <<"already">>)
                   /\ \/ Contains(text, <<"marketplace">>)
                      \/ Contains(text, <<"exists">>)
                      \/ Contains(text, <<"added">>)
                      \/ Contains(text, <<"installed">>)
        has_error == HasErrorWords(text)
        success == /\ ~has_error
                   /\ \/ Contains(text, <<"marketplace", "added">>)
                      \/ Contains(text, <<"added", "marketplace">>)
                      \/ Contains(text, <<"successfully", "added">>)
                      \/ /\ Contains(text, <<"marketplace">>)
                         /\ Contains(text, <<"added">>)
                         /\ ~Contains(text, <<"not", "added">>)
    IN  IF already THEN [ success |-> TRUE, already |-> TRUE ]
        ELSE [ success |-> success, already |-> FALSE ]

parse_plugin_install_output_FailOpen(output) ==
    LET text == to_lowercase(output)
        not_installed == \/ Contains(text, <<"not", "installed">>)
                         \/ Contains(text, <<"not", "found">>)
        already == \/ Contains(text, <<"already", "installed">>)
                   \/ Contains(text, <<"already", "exists">>)
    IN  [ success |-> ~HasErrorWords(text) /\ ~not_installed, already |-> already ]

parse_plugin_install_output(output) ==
    LET text == to_lowercase(output)
        has_error == HasErrorWords(text)
        not_installed == \/ Contains(text, <<"not", "installed">>)
                         \/ Contains(text, <<"not", "found">>)
        already == \/ Contains(text, <<"already", "installed">>)
                   \/ Contains(text, <<"already", "exists">>)
        success == /\ ~has_error
                   /\ ~not_installed
                   /\ \/ already
                      \/ Contains(text, <<"successfully", "installed">>)
                      \/ Contains(text, <<"installation", "complete">>)
                      \/ Contains(text, <<"install", "success">>)
                      \/ Contains(text, <<"plugin", "installed">>)
                      \/ /\ Contains(text, <<"installed">>)
                         /\ ~Contains(text, <<"not", "installed">>)
                         /\ ~Contains(text, <<"isn't", "installed">>)
    IN  [ success |-> success, already |-> already ]

parse_plugin_uninstall_output_ErrorFirst(output) ==
    LET text == to_lowercase(output)
        not_installed == \/ Contains(text, <<"not", "installed">>)
                         \/ Contains(text, <<"not", "found">>)
        success == /\ ~HasErrorWords(text)
                   /\ \/ not_installed
                      \/ Contains(text, <<"uninstalled">>)
                      \/ Contains(text, <<"removed">>)
    IN  [ success |-> success, already |-> not_installed ]

parse_plugin_uninstall_output(output) ==
    LET text == to_lowercase(output)
        not_installed == \/ Contains(text, <<"not", "installed">>)
                         \/ Contains(text, <<"not", "found">>)
                         \/ Contains(text, <<"doesn't", "exist">>)
                         \/ /\ Contains(text, <<"not", "found">>)
                            /\ Contains(text, <<"installed", "plugins">>)
        has_error == ~not_installed /\ HasErrorWords(text)
        success == /\ ~has_error
                   /\ \/ not_installed
                      \/ Contains(text, <<"successfully", "uninstalled">>)
                      \/ Contains(text, <<"uninstall", "success">>)
                      \/ Contains(text, <<"plugin", "uninstalled">>)
                      \/ Contains(text, <<"removed">>)
                      \/ /\ Contains(text, <<"uninstalled">>)
                         /\ ~Contains(text, <<"not", "uninstalled">>)
    IN  [ success |-> success, already |-> not_installed ]

parse_marketplace_remove_output(output) ==
    LET text == to_lowercase(output)
        not_found == \/ Contains(text, <<"not", "found">>)
                     \/ Contains(text, <<"doesn't", "exist">>)
                     \/ /\ Contains(text, <<"marketplace">>)
                        /\ Contains(text, <<"not", "found">>)
        has_error == ~not_found /\ HasErrorWords(text)
        success == /\ ~has_error
                   /\ \/ not_found
                      \/ Contains(text, <<"successfully", "removed">>)
                      \/ Contains(text, <<"marketplace", "removed">>)
                      \/ Contains(text, <<"removed", "marketplace">>)
                      \/ Contains(text, <<"uninstalled">>)
                      \/ /\ Contains(text, <<"removed">>)
                         /\ ~Contains(text, <<"not", "removed">>)
    IN  [ success |-> success, already |-> not_found ]

parse_marketplace_update_output(output) ==
    LET text == to_lowercase(output)
    IN  \/ Contains(text, <<"successfully", "updated", "marketplace">>)
        \/ /\ Contains(text, <<"updated">>)
           /\ Contains(text, <<"marketplace">>)
           /\ ~Contains(text, <<"failed">>)
        \/ Contains(text, <<"already", "up", "to", "date">>)

parse_plugin_update_output_Installed(output) ==
    LET text == to_lowercase(output)
    IN  IF Contains(text, <<"already">>) /\ Contains(text, <<"latest">>)
        THEN "already_installed"
        ELSE IF Contains(text, <<"updated">>) THEN "installed"
        ELSE "failed"

parse_plugin_update_output(output) ==
    LET text == to_lowercase(output)
    IN  IF Contains(text, <<"already">>) /\ Contains(text, <<"latest">>)
        THEN "already_latest"
        ELSE IF Contains(text, <<"success">>) /\ Contains(text, <<"updated">>)
        THEN "updated"
        ELSE IF Contains(text, <<"updated">>) THEN "updated"
        ELSE "failed"

----------------------------------------------------------------------------
(* Inputs of the lifecycle operations *)

\* Longest `claude plugin list --json` listing that is enumerated
MaxListing == 2

\* Most lifecycle operations in one behaviour
MaxOps == 3

NameA == <<"a">>

NameB == <<"b">>

MarketM == <<"m">>

RepoR1 == GithubPrefix \o <<"o/r1">>

RepoR2 == GithubPrefix \o <<"o/r2">>

\* Rows of the repositories table (prepare looks the plugin's repository up)
KnownRepositories == { RepoR1, RepoR2 }

\* Utc::now()
Now == "now"

\* ClaudeInstalledPluginEntry values: two entries of the same id in two
\* scopes (the second with an unparseable date), and an id without '@' 
InstalledEntries ==
    { [ id |-> PluginSpecOf(NameA, MarketM), version |-> Some("1.0"),
        scope |-> Some("user"), enabled |-> Some(TRUE),
        install_path |-> Some("/plugins/a"),
        installed_at |-> Some("2024-01-01T00:00:00Z"),
        last_updated |-> Some("2024-02-02T00:00:00Z") ],
      [ id |-> PluginSpecOf(NameA, MarketM), version |-> None,
        scope |-> Some("project"), enabled |-> None,
        install_path |-> None,
        installed_at |-> Some("yesterday"),
        last_updated |-> None ],
      [ id |-> <<"a", "m">>, version |-> None,
        scope |-> None, enabled |-> None, install_path |-> None,
        installed_at |-> None, last_updated |-> None ] }

\* The listings `claude plugin list --json` gives: no entry twice (two
\* entries may still carry the same id, in different scopes)
Listings ==
    { s \in SeqsUpTo(InstalledEntries, MaxListing) :
        \A i, j \in 1..Len(s) : i # j => s[i] # s[j] }

\* The listings tried for the sync that update_plugin runs at its end
ResyncListings == SeqsUpTo(InstalledEntries, 1)

\* ClaudeMarketplaceListEntry listings
MarketplaceListings ==
    { <<>>,
      << [ name |-> MarketM, repo |-> Some(<<" ", "o/r1">>) ] >> }

\* What sync_featured_marketplaces is asked to list: (name, repository_url,
\* marketplace_name) of each featured plugin, in configuration order
FeaturedConfigs ==
    { <<>>,
      << <<NameA, RepoR1, MarketM>> >>,
      << <<NameA, RepoR1, MarketM>>, <<NameB, RepoR1, MarketM>> >>,
      << <<NameA, RepoR1, MarketM>>, <<NameA, RepoR2, MarketM>> >> }

\* Plugin names a repository's marketplace.json can list
ManifestNames == { <<NameA>>, <<NameB>>, <<NameA, NameB>> }

\* A source that resolves to a directory below the repository root
PlainSource == <<".", "/", "a">>

PlainSources(names) == [ i \in 1..Len(names) |-> PlainSource ]

MaxSourceLen == 3

SourceChars == { ".", "/", "a", "\\", " " }

\* Every string a manifest can hold as a source, up to MaxSourceLen
SourceStrings == SeqsUpTo(SourceChars, MaxSourceLen)

\* A manifest whose last entry holds the source, behind plain ones
ManifestSources(names, source) ==
    [ i \in 1..Len(names) |-> IF i = Len(names) THEN source ELSE PlainSource ]

HardIssue ==
    [ severity |-> "Critical", category |-> "FileSystem", description |-> "RM_RF_ROOT",
      line_number |-> Some(1), file_path |-> Some("run.sh") ]

TruncatedIssue ==
    [ severity |-> "Info", category |-> "Other", description |-> "file truncated",
      line_number |-> None, file_path |-> Some("run.sh") ]

\* The warning of a scan that the file cap cut: it names no file
CapIssue ==
    [ severity |-> "Warning", category |-> "Other", description |-> "max file limit",
      line_number |-> None, file_path |-> None ]

ReportOf(score, blocked, completeness) ==
    [ score |-> score,
      level |-> IF score >= 90 THEN "Safe" ELSE IF score >= 50 THEN "Medium" ELSE "Critical",
      blocked |-> blocked,
      hard_trigger_issues |-> IF blocked THEN << "RM_RF_ROOT in run.sh" >> ELSE <<>>,
      issues |-> (IF blocked THEN << HardIssue >> ELSE <<>>)
                    \o (IF completeness = "truncated" THEN << TruncatedIssue >> ELSE <<>>)
                    \o (IF completeness = "capped" THEN << CapIssue >> ELSE <<>>),
      recommendations |-> IF score < 100 THEN << "review" >> ELSE <<>>,
      scanned_files |-> << "run.sh" >>,
      partial_scan |-> completeness # "complete",
      skipped_files |-> IF completeness = "skipped" THEN << "data.bin" >> ELSE <<>> ]

\* The reports a prepare gets from the scanner: a clean one and a blocked one
ScanReports ==
    { ReportOf(100, FALSE, "complete"), ReportOf(40, TRUE, "complete") }

MarketplaceAddOutputs ==
    { <<"Successfully", "added", "marketplace">>, <<"Error">> }

PluginInstallOutputs ==
    { <<"Successfully", "installed">>, <<"Plugin", "already", "installed">>, <<>> }

PluginUninstallOutputs ==
    { <<"Successfully", "uninstalled">>, <<"Error", "Plugin", "not", "found">>,
      <<"Failed">> }

PluginUpdateOutputs ==
    { <<"Successfully", "updated">>, <<>> }

MarketplaceNames == { MarketM }

MarketplaceUpdateOutputs == { <<"Successfully", "updated", "marketplace">>, <<"Failed">> }

MarketplaceRemoveOutputs == { <<"Successfully", "removed">>, <<"Error">> }

\* What the uninstalls that remove_marketplace runs print
RemoveUninstallOutputs == { <<"Successfully", "uninstalled">>, <<"Failed">> }

----------------------------------------------------------------------------
(* The record kept of the last lifecycle operation *)

LastOf(op, id, result, cli, listing, pre) ==
    [ op |-> op, id |-> id, result |-> result, cli |-> cli,
      listing |-> listing, pre |-> pre, n |-> last.n + 1,
      cli_found |-> TRUE, error |-> None,
      sources |-> <<>>, scanned |-> {}, repository_cache_updated |-> FALSE,
      pairs |-> <<>>, message |-> <<>>, report |-> None ]

\* The operation ended with this error; cli_found is what which(cli_command)
\* would have answered
Failed(record, cli_found, error) ==
    [ record EXCEPT !.cli_found = cli_found, !.error = Some(error) ]

WhichFails_Never(cli_found) == FALSE

\* which(&cli_command).is_err()
WhichFails(cli_found) == ~cli_found

CanStep == last.n < MaxOps

\* ClaudeCommandOutput { command, output }: one command of a batch that
\* was run and the text it gave
CommandOutput(command, output) == [ command |-> command, output |-> output ]

\* The scanner and the scorer are idle while the lifecycle runs
IdleWalk == [ pc |-> "idle" ]

\* No ClaudeCli::run call is under way
IdleDriver == [ pc |-> "idle" ]

\* No scan command is under way
IdleRescan == [ pc |-> "idle" ]

LifecycleFrame == UNCHANGED <<walk, score_in, score_out, driver, text_in, text_out, rescan>>

GateOf(id) == IF id \in DOMAIN gate THEN gate[id] ELSE "none"

----------------------------------------------------------------------------
(* sync_featured_marketplaces *)

FeaturedRecord(existing, item) ==
    LET fresh == [ PluginNew(item[1], item[2], item[3])
                     EXCEPT !.discovery_source = Some("featured_marketplace") ]
    IN  IF ~HasId(existing, fresh.id) THEN fresh
        ELSE LET old == FindById(existing, fresh.id)
             IN  [ fresh EXCEPT
                     !.installed = old.installed,
                     !.installed_at = old.installed_at,
                     !.installed_version = old.installed_version,
                     !.claude_id = OrElse(old.claude_id, fresh.claude_id),
                     !.claude_scope = old.claude_scope,
                     !.claude_enabled = old.claude_enabled,
                     !.claude_install_path = old.claude_install_path,
                     !.claude_last_updated = old.claude_last_updated,
                     !.security_score = old.security_score,
                     !.security_level = old.security_level,
                     !.security_issues = old.security_issues,
                     !.scanned_at = old.scanned_at,
                     !.staging_path = old.staging_path,
                     !.install_log = old.install_log,
                     !.install_status = IF old.install_status = Some("unsupported")
                                        THEN None ELSE old.install_status ]

RECURSIVE FeaturedSave(_, _, _)
FeaturedSave(rows, existing, config) ==
    IF config = <<>> THEN rows
    ELSE FeaturedSave(save_plugin(rows, FeaturedRecord(existing, Head(config))),
                      existing, Tail(config))

RECURSIVE FeaturedPrune(_, _, _)
FeaturedPrune(rows, existing, featured_ids) ==
    IF existing = <<>> THEN rows
    ELSE LET old == Head(existing)
             stale == /\ old.discovery_source = Some("featured_marketplace")
                      /\ ~old.installed
                      /\ old.id \notin featured_ids
         IN  FeaturedPrune(IF stale THEN delete_plugin(rows, old.id) ELSE rows,
                           Tail(existing), featured_ids)

SyncFeatured(config) ==
    /\ CanStep
    /\ LET existing == get_plugins(store)
           featured_ids == { FeaturedRecord(existing, config[i]).id : i \in 1..Len(config) }
       IN  store' = FeaturedPrune(FeaturedSave(store, existing, config),
                                  existing, featured_ids)
    /\ last' = LastOf("sync_featured", <<>>, "Ok", <<>>, None, store)
    /\ UNCHANGED gate
    /\ LifecycleFrame

----------------------------------------------------------------------------
(* prepare_plugin_installation *)

\* A manifest source is a string: a sequence of characters

StartsWith(s, prefix) ==
    Len(s) >= Len(prefix) /\ SubSeq(s, 1, Len(prefix)) = prefix

\* str::trim_start_matches(pattern) for a non-empty pattern
RECURSIVE trim_start_matches(_, _)
trim_start_matches(s, pattern) ==
    IF StartsWith(s, pattern)
    THEN trim_start_matches(SubSeq(s, Len(pattern) + 1, Len(s)), pattern)
    ELSE s

\* str::trim_end_matches(c) for one character
RECURSIVE trim_end_matches(_, _)
trim_end_matches(s, c) ==
    IF s # <<>> /\ s[Len(s)] = c
    THEN trim_end_matches(SubSeq(s, 1, Len(s) - 1), c)
    ELSE s

normalize_source(source) ==
    LET trimmed == Trim(source)
    IN  IF trimmed = <<".">> \/ trimmed = <<".", "/">> THEN <<".">>
        ELSE LET stripped == IF StartsWith(trimmed, <<".", "/">>)
                             THEN trim_start_matches(trimmed, <<".", "/">>)
                             ELSE trimmed
                 ended == trim_end_matches(trim_end_matches(stripped, "/"), "\\")
             IN  IF ended = <<>> THEN <<".">> ELSE ended

\* The pieces of a path between its separators, empty pieces included
RECURSIVE SplitPath(_, _)
SplitPath(s, piece) ==
    IF s = <<>> THEN << piece >>
    ELSE IF Head(s) = "/" THEN << piece >> \o SplitPath(Tail(s), <<>>)
    ELSE SplitPath(Tail(s), Append(piece, Head(s)))

ComponentKind(piece) ==
    IF piece = <<".">> THEN "CurDir"
    ELSE IF piece = <<".", ".">> THEN "ParentDir"
    ELSE "Normal"

\* Empty pieces and "." pieces are dropped, except a "." that begins a
\* relative path
RECURSIVE ComponentsFrom(_, _, _)
ComponentsFrom(pieces, i, has_root) ==
    IF i > Len(pieces) THEN <<>>
    ELSE (IF /\ pieces[i] # <<>>
             /\ pieces[i] # <<".">> \/ (i = 1 /\ ~has_root)
          THEN << ComponentKind(pieces[i]) >> ELSE <<>>)
            \o ComponentsFrom(pieces, i + 1, has_root)

\* Path::components, where "/" is the only separator and no path has a
\* prefix: a leading separator is the root
Components(path) ==
    LET has_root == path # <<>> /\ Head(path) = "/"
    IN  (IF has_root THEN << "RootDir" >> ELSE <<>>)
           \o ComponentsFrom(SplitPath(path, <<>>), 1, has_root)

IsRejectedComponent_RootOnly(kind) == kind \in { "RootDir", "Prefix" }

\* Component::ParentDir | Component::RootDir | Component::Prefix(_)
IsRejectedComponent(kind) == kind \in { "ParentDir", "RootDir", "Prefix" }

\* Err is None; Ok(path) is Some of the repository root and the relative
\* path joined to it (empty when the root itself is returned)
resolve_source_path(source) ==
    LET normalized == normalize_source(source)
        kinds == Components(normalized)
    IN  IF normalized = <<".">> THEN Some([ root |-> "repo_root", relative |-> <<>> ])
        ELSE IF \E i \in 1..Len(kinds) : IsRejectedComponent(kinds[i]) THEN None
        ELSE Some([ root |-> "repo_root", relative |-> normalized ])

\* resolve_marketplace_plugins: the entry's source is normalized, then
\* resolved
ResolveEntry(source) == resolve_source_path(normalize_source(source))

\* resolve_marketplace_plugins stops at the first entry whose source does
\* not resolve
AllResolve(sources) ==
    \A i \in 1..Len(sources) : ResolveEntry(sources[i]) # None

\* resolve_marketplace_plugins followed by the merge with the stored row
ResolvedRecord(existing, repository_url, name) ==
    LET fresh == PluginNew(name, repository_url, MarketM)
    IN  IF ~HasId(existing, fresh.id) THEN fresh
        ELSE LET old == FindById(existing, fresh.id)
             IN  [ fresh EXCEPT
                     !.installed = old.installed,
                     !.installed_at = old.installed_at,
                     !.installed_version = old.installed_version,
                     !.claude_id = OrElse(old.claude_id, fresh.claude_id),
                     !.discovery_source = OrElse(old.discovery_source, fresh.discovery_source),
                     !.claude_scope = old.claude_scope,
                     !.claude_enabled = old.claude_enabled,
                     !.claude_install_path = old.claude_install_path,
                     !.claude_last_updated = old.claude_last_updated,
                     !.install_log = old.install_log,
                     !.install_status = old.install_status ]

\* merge_reports: blocked is the OR of the constituent reports
MergedBlocked(reports) == \E i \in 1..Len(reports) : reports[i].blocked

\* merge_reports. A pair is a plugin and the report of its scan; a file
\* path or a message is one token, and format! puts tokens in a row.

MergedScore_Last(reports) ==
    IF reports = <<>> THEN 100 ELSE reports[Len(reports)][2].score

\* let mut score = 100; if report.score < score { score = report.score; }
RECURSIVE MergedScore(_)
MergedScore(reports) ==
    IF reports = <<>> THEN 100
    ELSE LET score  == MergedScore(SubSeq(reports, 1, Len(reports) - 1))
             report == reports[Len(reports)][2]
         IN  IF report.score < score THEN report.score ELSE score

\* format!("{}/{}", plugin.name, path)
PrefixedPath_Bare(plugin, path) == << path >>

PrefixedPath(plugin, path) == plugin.name \o << "/", path >>

\* format!("[{}] {}", plugin.name, item)
PrefixedMessage(plugin, item) == << "[" >> \o plugin.name \o << "] ", item >>

PrefixedIssue(plugin, issue) ==
    IF issue.file_path = None THEN issue
    ELSE [ issue EXCEPT !.file_path = Some(PrefixedPath(plugin, issue.file_path[1])) ]

\* The pushes of one turn of the loop, for one field of the report
PrefixedAll(plugin, items, Prefixed(_, _)) ==
    [ k \in 1..Len(items) |-> Prefixed(plugin, items[k]) ]

merge_reports(reports, marketplace_name) ==
    LET Of(i)  == reports[i][2]
        By(i)  == reports[i][1]
        all    == 1..Len(reports)
        skipped_files ==
            Flatten([ i \in all |-> PrefixedAll(By(i), Of(i).skipped_files, PrefixedPath) ])
    IN  [ skill_id |-> << "marketplace::" >> \o marketplace_name,
          score |-> MergedScore(reports),
          issues |-> Flatten([ i \in all |-> PrefixedAll(By(i), Of(i).issues, PrefixedIssue) ]),
          recommendations |-> UNION { Range(Of(i).recommendations) : i \in all },
          blocked |-> MergedBlocked([ i \in all |-> Of(i) ]),
          hard_trigger_issues |->
              Flatten([ i \in all |->
                          PrefixedAll(By(i), Of(i).hard_trigger_issues, PrefixedMessage) ]),
          scanned_files |->
              Flatten([ i \in all |-> PrefixedAll(By(i), Of(i).scanned_files, PrefixedPath) ]),
          partial_scan |-> (\E i \in all : Of(i).partial_scan) \/ skipped_files # <<>>,
          skipped_files |-> skipped_files ]

\* format!("{}{:?}: {}", file_info, i.severity, i.description)
FormattedIssue(issue) ==
    (IF issue.file_path = None THEN <<>> ELSE << "[", issue.file_path[1], "] " >>)
       \o << issue.severity, ": ", issue.description >>

BlockedMessage_FirstOnly(merged_report) ==
    IF merged_report.hard_trigger_issues = <<>> THEN <<>>
    ELSE << << 1, merged_report.hard_trigger_issues[1] >> >>

\* The numbered lines of the error message of a blocked prepare
BlockedMessage(merged_report) ==
    [ idx \in 1..Len(merged_report.hard_trigger_issues) |->
        << idx, merged_report.hard_trigger_issues[idx] >> ]

\* The row saved for one (plugin, report) pair
PreparedMarksBlocked(blocked, plugin) == blocked /\ ~plugin.installed

PreparedRecord(plugin, report, blocked) ==
    [ plugin EXCEPT
        !.security_score = Some(report.score),
        !.security_level = Some(report.level),
        !.security_issues = Some([ k \in 1..Len(report.issues) |->
                                     FormattedIssue(report.issues[k]) ]),
        !.scanned_at = Some(Now),
        !.staging_path = Some("staged"),
        !.install_status = IF PreparedMarksBlocked(blocked, plugin)
                           THEN Some("blocked") ELSE plugin.install_status ]

RECURSIVE PrepareSave(_, _, _, _)
PrepareSave(rows, resolved, reports, blocked) ==
    IF resolved = <<>> THEN rows
    ELSE PrepareSave(save_plugin(rows, PreparedRecord(Head(resolved), Head(reports), blocked)),
                     Tail(resolved), Tail(reports), blocked)

\* The repository is missing from the repositories table: error, nothing saved
PrepareNoRepository(plugin_id) ==
    /\ CanStep
    /\ HasId(store, plugin_id)
    /\ FindById(store, plugin_id).repository_url \notin KnownRepositories
    /\ last' = LastOf("prepare", plugin_id, "Err", <<>>, None, store)
    /\ UNCHANGED <<store, gate>>
    /\ LifecycleFrame

\* What a prepare read from the manifest and wrote to the repositories
\* table: the archive is downloaded, and update_repository_cache called,
\* when the repository has no cache directory (cached is false)
Prepared(record, sources, scanned, cached) ==
    [ record EXCEPT !.sources = sources, !.scanned = scanned,
                    !.repository_cache_updated = ~cached ]

\* A source of the manifest does not resolve: error out of
\* resolve_marketplace_plugins, before any plugin is scanned or saved
PrepareRejectedSource(plugin_id, names, sources, cached) ==
    /\ CanStep
    /\ HasId(store, plugin_id)
    /\ Len(sources) = Len(names)
    /\ FindById(store, plugin_id).repository_url \in KnownRepositories
    /\ ~AllResolve(sources)
    /\ last' = Prepared(Failed(LastOf("prepare", plugin_id, "Err", <<>>, None, store),
                               TRUE, "source_path"),
                        sources, {}, cached)
    /\ UNCHANGED <<store, gate>>
    /\ LifecycleFrame

Prepare(plugin_id, names, sources, reports, cached) ==
    /\ CanStep
    /\ HasId(store, plugin_id)
    /\ Len(reports) = Len(names)
    /\ Len(sources) = Len(names)
    /\ AllResolve(sources)
    /\ LET plugin == FindById(store, plugin_id)
           existing == get_plugins(store)
           resolved == [ i \in 1..Len(names) |->
                           ResolvedRecord(existing, plugin.repository_url, names[i]) ]
           pairs == [ i \in 1..Len(names) |-> << resolved[i], reports[i] >> ]
           merged_report == merge_reports(pairs, resolved[1].marketplace_name)
           blocked == merged_report.blocked
           scanned == { resolved[i].id : i \in 1..Len(resolved) }
           outcome == IF blocked
                      THEN [ Failed(LastOf("prepare", plugin_id, "Err", <<>>, None, store),
                                    TRUE, "blocked")
                               EXCEPT !.message = BlockedMessage(merged_report),
                                      !.pairs = pairs ]
                      ELSE [ LastOf("prepare", plugin_id, "Ok", <<>>, None, store)
                               EXCEPT !.report = Some(merged_report), !.pairs = pairs ]
       IN  /\ plugin.repository_url \in KnownRepositories
           /\ store' = PrepareSave(store, resolved, reports, blocked)
           /\ gate' = [ id \in (DOMAIN gate) \cup scanned |->
                          IF id \in scanned
                          THEN (IF blocked THEN "blocked" ELSE "ready")
                          ELSE gate[id] ]
           /\ last' = Prepared(outcome, sources, scanned, cached)
    /\ LifecycleFrame

----------------------------------------------------------------------------
(* confirm_plugin_installation *)

\* Repository::from_github_url(&plugin.repository_url) succeeds
HasMarketplaceRepo(plugin) ==
    /\ Len(plugin.repository_url) > Len(GithubPrefix)
    /\ SubSeq(plugin.repository_url, 1, Len(GithubPrefix)) = GithubPrefix

InstallStatusOf(outcome) ==
    IF outcome.success
    THEN (IF outcome.already THEN "already_installed" ELSE "installed")
    ELSE "failed"

\* What stands between finding the row and building the CLI commands
ConfirmAllowed(plugin) == HasMarketplaceRepo(plugin)

ConfirmedRecord_AlwaysInstalled(plugin, outcome, raw_log) ==
    [ plugin EXCEPT
        !.install_status = Some(InstallStatusOf(outcome)),
        !.install_log = Some(raw_log),
        !.staging_path = None,
        !.installed = TRUE,
        !.installed_at = Some(Now) ]

ConfirmedRecord(plugin, outcome, raw_log) ==
    [ plugin EXCEPT
        !.install_status = Some(InstallStatusOf(outcome)),
        !.install_log = Some(raw_log),
        !.staging_path = None,
        !.installed = IF outcome.success THEN TRUE ELSE plugin.installed,
        !.installed_at = IF outcome.success THEN Some(Now) ELSE plugin.installed_at ]

\* "无法解析 marketplace repo", or which(cli_command) fails: error before
\* any command is run
ConfirmRejected(plugin_id, cli_found) ==
    /\ CanStep
    /\ HasId(store, plugin_id)
    /\ ~ConfirmAllowed(FindById(store, plugin_id)) \/ WhichFails(cli_found)
    /\ last' = Failed(LastOf("confirm", plugin_id, "Err", <<>>, None, store), cli_found,
                      IF ~ConfirmAllowed(FindById(store, plugin_id))
                      THEN "marketplace_repo" ELSE "cli_not_found")
    /\ UNCHANGED <<store, gate>>
    /\ LifecycleFrame

Confirm(plugin_id, add_output, install_output) ==
    /\ CanStep
    /\ HasId(store, plugin_id)
    /\ LET plugin == FindById(store, plugin_id)
           outcome == parse_plugin_install_output(install_output)
           raw_log == add_output \o install_output
       IN  /\ ConfirmAllowed(plugin)
           /\ store' = save_plugin(store, ConfirmedRecord(plugin, outcome, raw_log))
           /\ last' = LastOf("confirm", plugin_id, "Ok",
                             << CommandOutput("plugin marketplace add", add_output),
                                CommandOutput("plugin install", install_output) >>,
                             None, store)
    /\ UNCHANGED gate
    /\ LifecycleFrame

----------------------------------------------------------------------------
(* cancel_plugin_installation *)

CancelledRecord_ClearsStatus(plugin) ==
    [ plugin EXCEPT !.staging_path = None, !.install_status = None ]

\* updated.staging_path = None
CancelledRecord(plugin) == [ plugin EXCEPT !.staging_path = None ]

Cancel(plugin_id) ==
    /\ CanStep
    /\ HasId(store, plugin_id)
    /\ store' = save_plugin(store, CancelledRecord(FindById(store, plugin_id)))
    /\ last' = LastOf("cancel", plugin_id, "Ok", <<>>, None, store)
    /\ UNCHANGED gate
    /\ LifecycleFrame

----------------------------------------------------------------------------
(* uninstall_plugin *)

UninstalledRecord(plugin, outcome, raw_log) ==
    [ plugin EXCEPT
        !.installed = IF outcome.success THEN FALSE ELSE plugin.installed,
        !.installed_at = IF outcome.success THEN None ELSE plugin.installed_at,
        !.install_status = IF outcome.success THEN Some("uninstalled")
                           ELSE Some("uninstall_failed"),
        !.install_log = Some(raw_log) ]

UninstallAllowed_Always(plugin) == TRUE

\* if !plugin.installed { bail!("该插件尚未安装") }
UninstallAllowed(plugin) == plugin.installed

\* "该插件尚未安装", or which(cli_command) fails
UninstallRejected(plugin_id, cli_found) ==
    /\ CanStep
    /\ HasId(store, plugin_id)
    /\ ~UninstallAllowed(FindById(store, plugin_id)) \/ WhichFails(cli_found)
    /\ last' = Failed(LastOf("uninstall", plugin_id, "Err", <<>>, None, store), cli_found,
                      IF ~UninstallAllowed(FindById(store, plugin_id))
                      THEN "not_installed" ELSE "cli_not_found")
    /\ UNCHANGED <<store, gate>>
    /\ LifecycleFrame

Uninstall(plugin_id, output) ==
    /\ CanStep
    /\ HasId(store, plugin_id)
    /\ LET plugin == FindById(store, plugin_id)
           outcome == parse_plugin_uninstall_output(output)
       IN  /\ UninstallAllowed(plugin)
           /\ store' = save_plugin(store, UninstalledRecord(plugin, outcome, output))
           /\ last' = LastOf("uninstall", plugin_id, "Ok",
                             << CommandOutput("plugin uninstall", output) >>,
                             None, store)
    /\ UNCHANGED gate
    /\ LifecycleFrame

----------------------------------------------------------------------------
(* sync_claude_installed_state *)

\* which(cli_command) fails: Ok(()) and the table is left as it is
SyncNoCli ==
    /\ CanStep
    /\ last' = LastOf("sync", <<>>, "Ok", <<>>, None, store)
    /\ UNCHANGED <<store, gate>>
    /\ LifecycleFrame

\* parse_json_output(plugins_output) fails: the error is returned before
\* any row is read or written
SyncParseError ==
    /\ CanStep
    /\ last' = LastOf("sync", <<>>, "Err",
                      << CommandOutput("plugin marketplace list", <<>>),
                         CommandOutput("plugin list", <<"not", "json">>) >>,
                      None, store)
    /\ UNCHANGED <<store, gate>>
    /\ LifecycleFrame

Sync(marketplaces, entries) ==
    /\ CanStep
    /\ store' = SyncRows(store, marketplaces, entries)
    /\ last' = LastOf("sync", <<>>, "Ok",
                      << CommandOutput("plugin marketplace list", marketplaces),
                         CommandOutput("plugin list", entries) >>,
                      Some(<<marketplaces, entries>>), store)
    /\ UNCHANGED gate
    /\ LifecycleFrame

----------------------------------------------------------------------------
(* update_plugin *)

UpdateRejected(plugin_id, cli_found) ==
    /\ CanStep
    /\ HasId(store, plugin_id)
    /\ ~FindById(store, plugin_id).installed \/ WhichFails(cli_found)
    /\ last' = Failed(LastOf("update", plugin_id, "Err", <<>>, None, store), cli_found,
                      IF ~FindById(store, plugin_id).installed
                      THEN "not_installed" ELSE "cli_not_found")
    /\ UNCHANGED <<store, gate>>
    /\ LifecycleFrame

\* The log and status are saved, then sync_claude_installed_state(None) is
\* run and its result dropped (.ok()); resync is None when that sync does
\* not get a listing, Some(<<marketplaces, entries>>) when it does.
Update(plugin_id, output, resync) ==
    /\ CanStep
    /\ HasId(store, plugin_id)
    /\ LET plugin == FindById(store, plugin_id)
           saved == save_plugin(store,
                        [ plugin EXCEPT
                            !.install_log = Some(output),
                            !.install_status = Some(parse_plugin_update_output(output)) ])
       IN  /\ plugin.installed
           /\ store' = IF resync = None THEN saved
                       ELSE SyncRows(saved, resync[1][1], resync[1][2])
           /\ last' = LastOf("update", plugin_id, "Ok",
                             << CommandOutput("plugin update", output) >>, None, store)
    /\ UNCHANGED gate
    /\ LifecycleFrame

----------------------------------------------------------------------------
(* update_marketplace *)

UpdateMarketplace(marketplace_name, cli_found, output) ==
    /\ CanStep
    /\ last' = IF WhichFails(cli_found)
               THEN Failed(LastOf("update_marketplace", marketplace_name, "Err",
                                  <<>>, None, store),
                           cli_found, "cli_not_found")
               ELSE [ LastOf("update_marketplace", marketplace_name, "Ok",
                             << CommandOutput("plugin marketplace update", output) >>,
                             None, store)
                        EXCEPT !.cli_found = cli_found ]
    /\ UNCHANGED <<store, gate>>
    /\ LifecycleFrame

----------------------------------------------------------------------------
(* remove_marketplace *)

\* The uninstall_plugin call for each installed plugin of the marketplace:
\* the rows after the calls
RECURSIVE RemoveUninstalls(_, _, _)
RemoveUninstalls(rows, installed, outputs) ==
    IF installed = <<>> THEN rows
    ELSE LET plugin  == FindById(rows, Head(installed).id)
             outcome == parse_plugin_uninstall_output(Head(outputs))
         IN  RemoveUninstalls(
                 save_plugin(rows, UninstalledRecord(plugin, outcome, Head(outputs))),
                 Tail(installed), Tail(outputs))

\* uninstall_results.get(&plugin.id).copied().unwrap_or(true)
UninstallOk(plugin, installed, outputs) ==
    \A i \in 1..Len(installed) :
        installed[i].id = plugin.id => parse_plugin_uninstall_output(outputs[i]).success

\* The rows of the marketplace whose uninstall did not fail are deleted
RECURSIVE RemoveDeletes(_, _, _, _)
RemoveDeletes(rows, targets, installed, outputs) ==
    IF targets = <<>> THEN rows
    ELSE RemoveDeletes(IF UninstallOk(Head(targets), installed, outputs)
                       THEN delete_plugin(rows, Head(targets).id) ELSE rows,
                       Tail(targets), installed, outputs)

UninstallCommands(outputs) ==
    [ i \in 1..Len(outputs) |-> CommandOutput("plugin uninstall", outputs[i]) ]

\* The sync at the start may fail (a warning is logged): resync is None
\* then, Some(<<marketplaces, entries>>) when it obtains a listing.
RemoveMarketplace(marketplace_name, cli_found, resync, remove_output) ==
    /\ CanStep
    /\ IF WhichFails(cli_found)
       THEN /\ last' = Failed(LastOf("remove_marketplace", marketplace_name, "Err",
                                     <<>>, None, store),
                              cli_found, "cli_not_found")
            /\ UNCHANGED store
       ELSE LET synced == IF resync = None THEN store
                          ELSE SyncRows(store, resync[1][1], resync[1][2])
                InMarketplace(plugin) == plugin.marketplace_name = marketplace_name
                IsInstalled(plugin) == plugin.installed
                targets == SelectSeq(get_plugins(synced), InMarketplace)
                installed == SelectSeq(targets, IsInstalled)
            IN  \E outputs \in [ 1..Len(installed) -> RemoveUninstallOutputs ] :
                   LET uninstalled == RemoveUninstalls(synced, installed, outputs)
                       outcome == parse_marketplace_remove_output(remove_output)
                   IN  /\ store' = IF outcome.success
                                   THEN RemoveDeletes(uninstalled, targets, installed, outputs)
                                   ELSE uninstalled
                       /\ last' = [ LastOf("remove_marketplace", marketplace_name, "Ok",
                                           UninstallCommands(outputs)
                                              \o << CommandOutput("plugin marketplace remove",
                                                                  remove_output) >>,
                                           None, store)
                                      EXCEPT !.cli_found = cli_found ]
    /\ UNCHANGED gate
    /\ LifecycleFrame

----------------------------------------------------------------------------
(* The lifecycle specification *)

PluginIds == Ids(store)

Init ==
    /\ store = <<>>
    /\ last = [ op |-> "init", id |-> <<>>, result |-> "Ok", cli |-> <<>>,
                listing |-> None, pre |-> <<>>, n |-> 0,
                cli_found |-> TRUE, error |-> None,
                sources |-> <<>>, scanned |-> {}, repository_cache_updated |-> FALSE,
                pairs |-> <<>>, message |-> <<>>, report |-> None ]
    /\ gate = <<>>
    /\ walk = IdleWalk
    /\ score_in = <<>>
    /\ score_out = None
    /\ driver = IdleDriver
    /\ text_in = <<>>
    /\ text_out = None
    /\ rescan = IdleRescan

Next ==
    \/ \E config \in FeaturedConfigs : SyncFeatured(config)
    \/ \E id \in PluginIds : PrepareNoRepository(id)
    \/ \E id \in PluginIds, names \in ManifestNames :
         \E reports \in [ 1..Len(names) -> ScanReports ] :
           Prepare(id, names, PlainSources(names), reports, TRUE)
    \/ \E id \in PluginIds : ConfirmRejected(id, FALSE)
    \/ \E id \in PluginIds, add_output \in MarketplaceAddOutputs,
          install_output \in PluginInstallOutputs : Confirm(id, add_output, install_output)
    \/ \E id \in PluginIds : Cancel(id)
    \/ \E id \in PluginIds : UninstallRejected(id, FALSE)
    \/ \E id \in PluginIds, output \in PluginUninstallOutputs : Uninstall(id, output)
    \/ SyncNoCli
    \/ SyncParseError
    \/ \E marketplaces \in MarketplaceListings, entries \in Listings :
         Sync(marketplaces, entries)
    \/ \E id \in PluginIds : UpdateRejected(id, FALSE)
    \/ \E id \in PluginIds, output \in PluginUpdateOutputs :
         \E resync \in { None } \cup
                { Some(<<m, e>>) : m \in MarketplaceListings, e \in ResyncListings } :
           Update(id, output, resync)

Spec == Init /\ [][Next]_vars

----------------------------------------------------------------------------
(* commands/plugins.rs: scan_all_installed_plugins and                     *)
(* scan_installed_plugin. The command syncs under the manager's lock,      *)
(* lets the lock go, reads the table, scans each plugin's directory and    *)
(* saves each row; other commands run between these steps.                 *)

RescanFrame == UNCHANGED <<gate, walk, score_in, score_out, driver, text_in, text_out>>

\* sync_claude_installed_state at the head of the command; its error is
\* logged and the command goes on
RescanSynced(resync) ==
    IF resync = None THEN store ELSE SyncRows(store, resync[1][1], resync[1][2])

RescanSyncRecord(resync) ==
    IF resync = None THEN LastOf("sync", <<>>, "Ok", <<>>, None, store)
    ELSE LastOf("sync", <<>>, "Ok",
                << CommandOutput("plugin marketplace list", resync[1][1]),
                   CommandOutput("plugin list", resync[1][2]) >>,
                resync, store)

IsInstalled(plugin) == plugin.installed

\* The row the scan saves: the plugin as it was read, with the report's
\* summary
RescannedRecord(plugin, report) ==
    [ plugin EXCEPT
        !.security_score = Some(report.score),
        !.security_level = Some(report.level),
        !.security_issues = Some([ k \in 1..Len(report.issues) |->
                                     FormattedIssue(report.issues[k]) ]),
        !.scanned_at = Some(Now) ]

\* scan_all_installed_plugins up to the start of the pool: the sync, then
\* get_plugins filtered by installed
ScanAllStart(resync) ==
    /\ CanStep
    /\ rescan.pc = "idle"
    /\ store' = RescanSynced(resync)
    /\ last' = RescanSyncRecord(resync)
    /\ LET plugins == SelectSeq(get_plugins(RescanSynced(resync)), IsInstalled)
       IN  rescan' = [ pc |-> "scan", command |-> "scan_all_installed_plugins",
                       plugins |-> plugins, pending |-> 1..Len(plugins) ]
    /\ RescanFrame

\* scan_installed_plugin up to the scan: the sync, then the row is looked
\* up; a plugin that is not installed or has no install path is an error
ScanOneStart(plugin_id, resync) ==
    /\ CanStep
    /\ rescan.pc = "idle"
    /\ store' = RescanSynced(resync)
    /\ last' = RescanSyncRecord(resync)
    /\ LET rows == get_plugins(RescanSynced(resync))
       IN  rescan' = IF /\ HasId(rows, plugin_id)
                        /\ FindById(rows, plugin_id).installed
                        /\ FindById(rows, plugin_id).claude_install_path # None
                     THEN [ pc |-> "scan", command |-> "scan_installed_plugin",
                            plugins |-> << FindById(rows, plugin_id) >>,
                            pending |-> { 1 } ]
                     ELSE IdleRescan
    /\ RescanFrame

\* One plugin's directory was scanned and its row is saved
RescanSave(k, report) ==
    /\ CanStep
    /\ rescan.pc = "scan"
    /\ k \in rescan.pending
    /\ rescan.plugins[k].claude_install_path # None
    /\ LET plugin == rescan.plugins[k]
       IN  /\ store' = save_plugin(store, RescannedRecord(plugin, report))
           /\ last' = LastOf("rescan_save", plugin.id, "Ok", <<>>, None, store)
    /\ rescan' = [ rescan EXCEPT !.pending = @ \ { k } ]
    /\ RescanFrame

\* No install path, no directory there, or the scan failed: the plugin is
\* left out (scan_all) or the command fails (scan_installed_plugin)
RescanSkip(k) ==
    /\ rescan.pc = "scan"
    /\ k \in rescan.pending
    /\ rescan' = [ rescan EXCEPT !.pending = @ \ { k } ]
    /\ UNCHANGED <<store, last>>
    /\ RescanFrame

\* The command returns
RescanFinish ==
    /\ rescan.pc = "scan"
    /\ rescan.pending = {}
    /\ rescan' = IdleRescan
    /\ UNCHANGED <<store, last>>
    /\ RescanFrame

\* What the sync at the head of a scan command obtains
RescanListings ==
    { None } \cup { Some(<<m, e>>) : m \in MarketplaceListings, e \in ResyncListings }

NextRescan ==
    \/ \E resync \in RescanListings : ScanAllStart(resync)
    \/ \E id \in PluginIds, resync \in RescanListings : ScanOneStart(id, resync)
    \/ \E k \in 1..MaxListing, report \in ScanReports : RescanSave(k, report)
    \/ \E k \in 1..MaxListing : RescanSkip(k)
    \/ RescanFinish
    \/ \E id \in PluginIds, output \in PluginUninstallOutputs : Uninstall(id, output)
    \/ \E id \in PluginIds, add_output \in MarketplaceAddOutputs,
          install_output \in PluginInstallOutputs : Confirm(id, add_output, install_output)
    \/ \E marketplaces \in MarketplaceListings, entries \in ResyncListings :
         Sync(marketplaces, entries)

SpecRescan == Init /\ [][NextRescan]_vars

----------------------------------------------------------------------------
(* Properties of the lifecycle *)

RowSet(rows) == Range(rows)

\* The last operation is a reconciliation that obtained and applied a listing
SyncDone == last.op = "sync" /\ last.result = "Ok" /\ last.listing # None

SyncedMarketplaces == last.listing[1][1]

SyncedEntries == last.listing[1][2]

\* The last operation is a confirm that ran the CLI batch
ConfirmRan == last.op = "confirm" /\ last.cli # <<>>

\* C1: a confirm never runs the CLI install (nor saves its result) for a
\* plugin whose most recent prepare scan ended blocked.
C1_ConfirmOnlyFromReady ==
    ~(ConfirmRan /\ GateOf(last.id) = "blocked")

\* C2: a row that is not installed and whose most recent prepare scan was
\* blocked carries install_status = "blocked".
C2_BlockedStatusKept ==
    \A i \in 1..Len(store) :
        (~store[i].installed /\ GateOf(store[i].id) = "blocked")
            => store[i].install_status = Some("blocked")

InListing(claude_id, entries) ==
    \E k \in 1..Len(entries) : claude_id = Some(entries[k].id)

InstallMetadataCleared(plugin) ==
    /\ ~plugin.installed
    /\ plugin.installed_at = None
    /\ plugin.installed_version = None
    /\ plugin.claude_scope = None
    /\ plugin.claude_enabled = None
    /\ plugin.claude_install_path = None
    /\ plugin.claude_last_updated = None

\* C5: after a successful reconciliation every row that was installed and
\* whose claude_id is not in the listing is not installed and has its
\* install metadata cleared.
C5_SyncClearsMissing ==
    SyncDone =>
        \A i \in 1..Len(last.pre) :
            (last.pre[i].installed /\ ~InListing(last.pre[i].claude_id, SyncedEntries))
                => /\ HasId(store, last.pre[i].id)
                   /\ InstallMetadataCleared(FindById(store, last.pre[i].id))

C5_Witness ==
    /\ SyncDone
    /\ \E i \in 1..Len(last.pre) :
          /\ last.pre[i].installed
          /\ last.pre[i].installed_version # None
          /\ ~InListing(last.pre[i].claude_id, SyncedEntries)

\* C6 as stated: every listing entry has an installed row of that
\* claude_id, a row is installed iff its claude_id is listed, and a row
\* that did not exist before has discovery_source = "claude_cli".
C6_CliAlwaysWins ==
    SyncDone =>
        /\ \A k \in 1..Len(SyncedEntries) :
              \E i \in 1..Len(store) :
                 store[i].claude_id = Some(SyncedEntries[k].id) /\ store[i].installed
        /\ \A i \in 1..Len(store) :
              store[i].installed <=> InListing(store[i].claude_id, SyncedEntries)
        /\ \A i \in 1..Len(store) :
              ~HasId(last.pre, store[i].id)
                  => store[i].discovery_source = Some("claude_cli")

\* C6 amended: every listing entry whose id is name@marketplace has at
\* least one installed row of that claude_id, every installed row has its
\* claude_id in the listing, and a row that did not exist before has
\* discovery_source = "claude_cli".
C6_ListedParseableInstalled ==
    SyncDone =>
        /\ \A k \in 1..Len(SyncedEntries) :
              parse_claude_plugin_id(SyncedEntries[k].id) # None
                  => \E i \in 1..Len(store) :
                        /\ store[i].claude_id = Some(SyncedEntries[k].id)
                        /\ store[i].installed
        /\ \A i \in 1..Len(store) :
              store[i].installed => InListing(store[i].claude_id, SyncedEntries)
        /\ \A i \in 1..Len(store) :
              ~HasId(last.pre, store[i].id)
                  => store[i].discovery_source = Some("claude_cli")

C6_Witness ==
    /\ SyncDone
    /\ \E i \in 1..Len(store) : ~HasId(last.pre, store[i].id) /\ store[i].installed
    /\ \E k \in 1..Len(SyncedEntries) : parse_claude_plugin_id(SyncedEntries[k].id) = None

\* C7: a reconciliation run again against the same listings leaves the
\* same rows in the table.
C7_SyncIdempotent ==
    SyncDone =>
        RowSet(SyncRows(store, SyncedMarketplaces, SyncedEntries)) = RowSet(store)

C7_Witness ==
    /\ SyncDone
    /\ RowSet(store) # RowSet(last.pre)
    /\ \E i, j \in 1..Len(store) :
          i # j /\ store[i].claude_id = store[j].claude_id
                /\ InListing(store[i].claude_id, SyncedEntries)

\* C8: a reconciliation never removes a row: the plugin ids before it are
\* all still in the table after it.
C8_SyncNeverDeletes ==
    last.op = "sync" => Ids(last.pre) \subseteq Ids(store)

C8_Witness ==
    /\ SyncDone
    /\ Len(last.pre) > 0
    /\ \E i \in 1..Len(last.pre) :
          last.pre[i].installed /\ ~InListing(last.pre[i].claude_id, SyncedEntries)

\* The row of the last operation's plugin before and after the operation
RowBefore == FindById(last.pre, last.id)

RowAfter == FindById(store, last.id)

\* Every row but the one of the given id
OtherRows(rows, id) == { row \in RowSet(rows) : row.id # id }

\* C12: uninstall_plugin on a row with installed = false returns an error,
\* runs no CLI command and leaves the table as it was.
C12_UninstallNeedsInstalled ==
    (last.op = "uninstall" /\ ~RowBefore.installed)
        => /\ last.result = "Err"
           /\ last.cli = <<>>
           /\ store = last.pre

C12_Witness ==
    /\ last.op = "uninstall"
    /\ ~RowBefore.installed
    /\ RowBefore.install_status # None

\* The uninstall output says the plugin is not found / not installed
SaysNotInstalled(output) ==
    LET text == to_lowercase(output)
    IN  \/ Contains(text, <<"not", "found">>)
        \/ Contains(text, <<"not", "installed">>)

UninstallRan == last.op = "uninstall" /\ last.result = "Ok"

\* C13: when the uninstall output says the plugin is not found or not
\* installed, the uninstall counts as a success: installed = false,
\* installed_at cleared, install_status = "uninstalled". When the output is
\* classified as a failure, the row keeps installed = true and gets
\* install_status = "uninstall_failed".
C13_UninstallOutcome ==
    UninstallRan
        => LET output == last.cli[1].output
           IN  /\ SaysNotInstalled(output)
                     => /\ ~RowAfter.installed
                        /\ RowAfter.installed_at = None
                        /\ RowAfter.install_status = Some("uninstalled")
               /\ ~parse_plugin_uninstall_output(output).success
                     => /\ RowAfter.installed
                        /\ RowAfter.installed_at = RowBefore.installed_at
                        /\ RowAfter.install_status = Some("uninstall_failed")

\* A not-found message that carries an error word
C13_Witness ==
    /\ UninstallRan
    /\ SaysNotInstalled(last.cli[1].output)
    /\ HasErrorWords(to_lowercase(last.cli[1].output))
    /\ RowBefore.installed_at # None

RECURSIVE RawLog(_)
\* raw_log.push_str(&output) over the outputs of the batch
RawLog(outputs) ==
    IF outputs = <<>> THEN <<>>
    ELSE Head(outputs).output \o RawLog(Tail(outputs))

ConfirmReturnedOk == last.op = "confirm" /\ last.result = "Ok"

\* C14: whenever confirm returns Ok, the row has install_status in
\* {installed, already_installed, failed}, install_log equal to the raw log
\* of the batch and staging_path cleared; installed is true, with
\* installed_at set, when the install output is classified as a success,
\* and installed and installed_at are as before when it is not.
C14_ConfirmOutcome ==
    ConfirmReturnedOk
        => LET success == parse_plugin_install_output(last.cli[2].output).success
           IN  /\ RowAfter.install_status
                     \in { Some("installed"), Some("already_installed"), Some("failed") }
               /\ (RowAfter.install_status = Some("failed")) <=> ~success
               /\ RowAfter.install_log = Some(RawLog(last.cli))
               /\ RowAfter.staging_path = None
               /\ success => RowAfter.installed /\ RowAfter.installed_at = Some(Now)
               /\ ~success => /\ RowAfter.installed = RowBefore.installed
                              /\ RowAfter.installed_at = RowBefore.installed_at

\* A failed install that leaves a row not installed, its staging path gone
C14_Witness ==
    /\ ConfirmReturnedOk
    /\ RowAfter.install_status = Some("failed")
    /\ ~RowAfter.installed
    /\ RowBefore.staging_path # None

\* C15: cancel clears the staging_path of the selected row and changes
\* nothing else: the row's other fields and the other rows are as before,
\* and no CLI command is run.
C15_CancelOnlyClearsStaging ==
    last.op = "cancel"
        => /\ last.result = "Ok"
           /\ last.cli = <<>>
           /\ RowAfter = [ RowBefore EXCEPT !.staging_path = None ]
           /\ OtherRows(store, last.id) = OtherRows(last.pre, last.id)
           /\ Len(store) = Len(last.pre)

C15_Witness ==
    /\ last.op = "cancel"
    /\ RowBefore.staging_path # None
    /\ RowBefore.install_status # None
    /\ OtherRows(store, last.id) # {}

\* The operations that need the CLI, the marketplace operations among
\* them, over tables filled by the syncs
NextMarketplace ==
    \/ \E config \in FeaturedConfigs : SyncFeatured(config)
    \/ \E marketplaces \in MarketplaceListings, entries \in Listings :
         Sync(marketplaces, entries)
    \/ \E id \in PluginIds, cli_found \in BOOLEAN : ConfirmRejected(id, cli_found)
    \/ \E id \in PluginIds, cli_found \in BOOLEAN : UninstallRejected(id, cli_found)
    \/ \E id \in PluginIds, cli_found \in BOOLEAN : UpdateRejected(id, cli_found)
    \/ \E name \in MarketplaceNames, cli_found \in BOOLEAN,
          output \in MarketplaceUpdateOutputs : UpdateMarketplace(name, cli_found, output)
    \/ \E name \in MarketplaceNames, cli_found \in BOOLEAN,
          remove_output \in MarketplaceRemoveOutputs :
         \E resync \in { None } \cup
                { Some(<<m, e>>) : m \in MarketplaceListings, e \in ResyncListings } :
           RemoveMarketplace(name, cli_found, resync, remove_output)

SpecMarketplace == Init /\ [][NextMarketplace]_vars

\* The source strings that resolve_marketplace_plugins fails on
RejectedSources == { source \in SourceStrings : ResolveEntry(source) = None }

\* One prepare over a manifest with any source string, after featured
\* syncs have filled the table; the behaviour ends with the prepare
NextPrepare ==
    /\ last.op # "prepare"
    /\ \/ \E config \in FeaturedConfigs : SyncFeatured(config)
       \/ \E id \in PluginIds, names \in ManifestNames, cached \in BOOLEAN :
            \E source \in RejectedSources :
              PrepareRejectedSource(id, names, ManifestSources(names, source), cached)
       \/ \E id \in PluginIds, names \in ManifestNames :
            \E source \in SourceStrings \ RejectedSources,
               reports \in [ 1..Len(names) -> { r \in ScanReports : ~r.blocked } ] :
              Prepare(id, names, ManifestSources(names, source), reports, TRUE)

SpecPrepare == Init /\ [][NextPrepare]_vars

NeedsCli ==
    last.op \in { "confirm", "uninstall", "update", "update_marketplace",
                  "remove_marketplace" }

\* The checks the operation makes before it looks for the CLI all passed
ReachedCliLookup ==
    CASE last.op = "confirm" -> ConfirmAllowed(RowBefore)
      [] last.op \in { "uninstall", "update" } -> RowBefore.installed
      [] OTHER -> TRUE

\* C26: when the CLI binary cannot be found, confirm, uninstall,
\* update_plugin, update_marketplace and remove_marketplace fail without
\* running any command and leave the table as it was; the error is the
\* CLI-not-found one whenever the operation got as far as looking for the
\* CLI.
C26_MissingCliFailsFast ==
    (NeedsCli /\ ~last.cli_found) =>
        /\ last.result = "Err"
        /\ last.cli = <<>>
        /\ store = last.pre
        /\ ReachedCliLookup => last.error = Some("cli_not_found")

\* A remove_marketplace without the CLI over a table that holds an
\* installed plugin of the marketplace
C26_Witness ==
    /\ last.op = "remove_marketplace"
    /\ ~last.cli_found
    /\ last.error = Some("cli_not_found")
    /\ \E i \in 1..Len(store) :
          store[i].installed /\ store[i].marketplace_name = last.id

\* A prepare that got as far as scanning the resolved plugins
PrepareScanned == last.op = "prepare" /\ last.pairs # <<>>

AnyBlocked == \E i \in 1..Len(last.pairs) : last.pairs[i][2].blocked

\* The row of the i-th resolved plugin carries the summary of its report
SummarySaved(i) ==
    LET plugin == last.pairs[i][1]
        report == last.pairs[i][2]
        row    == FindById(store, plugin.id)
    IN  /\ HasId(store, plugin.id)
        /\ row.security_score = Some(report.score)
        /\ row.security_level = Some(report.level)
        /\ Len(row.security_issues[1]) = Len(report.issues)
        /\ \A k \in 1..Len(report.issues) :
              row.security_issues[1][k] = FormattedIssue(report.issues[k])
        /\ row.scanned_at = Some(Now)
        /\ row.install_status = IF AnyBlocked /\ ~plugin.installed
                                THEN Some("blocked") ELSE plugin.install_status

\* The hard-trigger descriptions of the merged report: each report's, with
\* the plugin's name in brackets before it
ExpectedHardTriggers ==
    UNION { { PrefixedMessage(last.pairs[i][1], last.pairs[i][2].hard_trigger_issues[k]) :
                k \in 1..Len(last.pairs[i][2].hard_trigger_issues) } :
            i \in 1..Len(last.pairs) }

\* C28: a prepare whose merged report is blocked has saved the scan summary
\* of every resolved plugin (install_status "blocked" on each one that is
\* not installed) and returns an error whose message lists every
\* hard-trigger description of the merged report; the report is returned
\* exactly when nothing is blocked.
C28_BlockedPrepareSavesThenFails ==
    PrepareScanned =>
        /\ \A i \in 1..Len(last.pairs) : SummarySaved(i)
        /\ AnyBlocked =>
              /\ last.result = "Err"
              /\ last.report = None
              /\ { last.message[k][2] : k \in 1..Len(last.message) } = ExpectedHardTriggers
              /\ ExpectedHardTriggers # {}
        /\ ~AnyBlocked =>
              /\ last.result = "Ok"
              /\ last.report # None
              /\ ~last.report[1].blocked

\* Two plugins resolved, both reports blocked, one plugin installed and the
\* other not: two lines in the message, one row marked blocked
C28_Witness ==
    /\ PrepareScanned
    /\ Len(last.pairs) = 2
    /\ \A i \in 1..2 : last.pairs[i][2].blocked
    /\ \E i, j \in 1..2 : last.pairs[i][1].installed /\ ~last.pairs[j][1].installed
    /\ Len(last.message) = 2
    /\ last.result = "Err"

PrepareRead == last.op = "prepare" /\ last.sources # <<>>

\* The path has a parent-directory or a root component
HasParentOrAbsolute(path) ==
    \E i \in 1..Len(Components(path)) : Components(path)[i] \in { "ParentDir", "RootDir" }

OnlyNormalAndCurrent(path) ==
    \A i \in 1..Len(Components(path)) : Components(path)[i] \in { "Normal", "CurDir" }

ResolvesBelowRoot(source) ==
    LET resolved == ResolveEntry(source)
    IN  resolved = None \/ OnlyNormalAndCurrent(resolved[1].relative)

PrepareTouchedNoPlugin ==
    /\ last.result = "Err"
    /\ last.error = Some("source_path")
    /\ last.scanned = {}
    /\ store = last.pre

\* C27 as stated: every source either fails to resolve or resolves to the
\* root joined with normal and current-directory components only; a source
\* with a parent-directory or absolute component is rejected, and the
\* prepare then scans nothing and persists nothing at all.
C27_TraversalGuard ==
    PrepareRead =>
        /\ \A i \in 1..Len(last.sources) : ResolvesBelowRoot(last.sources[i])
        /\ (\E i \in 1..Len(last.sources) : HasParentOrAbsolute(last.sources[i])) =>
               PrepareTouchedNoPlugin /\ ~last.repository_cache_updated

\* The source holds slashes, backslashes and blanks only
OnlySeparators(source) ==
    \A i \in 1..Len(source) : source[i] \in { "/", "\\", " " }

\* C27, amended: every source either fails to resolve or resolves to the
\* root joined with normal and current-directory components only; a source
\* with a parent-directory or absolute component is rejected unless it is
\* made of slashes, backslashes and blanks only and resolves to the
\* repository root itself;
\* when a source is rejected the prepare fails without scanning a plugin
\* and without writing a plugin row (the repository's cache record has
\* been updated when the archive had to be downloaded for this call).
C27_TraversalGuardKeepsPlugins ==
    PrepareRead =>
        /\ \A i \in 1..Len(last.sources) : ResolvesBelowRoot(last.sources[i])
        /\ \A i \in 1..Len(last.sources) :
              HasParentOrAbsolute(last.sources[i]) =>
                 \/ ResolveEntry(last.sources[i]) = None
                 \/ /\ OnlySeparators(last.sources[i])
                    /\ ResolveEntry(last.sources[i])[1].relative = <<>>
        /\ (\E i \in 1..Len(last.sources) : ResolveEntry(last.sources[i]) = None) =>
               PrepareTouchedNoPlugin

\* A two-entry manifest whose second source names the parent directory is
\* rejected over a table that holds the plugin of its first entry
C27_Witness ==
    /\ PrepareRead
    /\ Len(last.sources) = 2
    /\ last.sources[2] = <<".", ".">>
    /\ PrepareTouchedNoPlugin
    /\ store # <<>>

----------------------------------------------------------------------------
(* security/scanner.rs: the weighted scorer.                               *)
(* The f32 arithmetic is carried out exactly on integers: every value is   *)
(* held as a numerator over ScoreScale(len), len being the number of       *)
(* matches, which bounds every exponent that occurs.                       *)

\* let mut base_score = 100.0f32
BASE_SCORE == 100

\* const DECAY: f32 = 0.5, held as its inverse
DECAY_INVERSE == 2

SkipsWeight_OnlyZero(weight) == weight = 0

\* if matched.weight <= 0 { continue; }
SkipsWeight(weight) == weight <= 0

HitFiles_EveryMatch(files, file_path) ==
    files \cup { <<file_path, Cardinality(files)>> }

\* entry.1.insert(matched.file_path.clone()) on a HashSet
HitFiles(files, file_path) == files \cup { file_path }

\* One turn of the first loop: rule_hits.entry(rule_id).or_insert_with(..),
\* then the weight is overwritten and the file inserted
RuleHitsInsert(rule_hits, matched) ==
    IF SkipsWeight(matched.weight) THEN rule_hits
    ELSE LET id    == matched.rule_id
             files == IF id \in DOMAIN rule_hits THEN rule_hits[id].files ELSE {}
         IN  [ r \in (DOMAIN rule_hits) \cup { id } |->
                 IF r = id
                 THEN [ weight |-> matched.weight,
                        files  |-> HitFiles(files, matched.file_path) ]
                 ELSE rule_hits[r] ]

RECURSIVE RuleHitsFold(_, _)
RuleHitsFold(rule_hits, matches) ==
    IF matches = <<>> THEN rule_hits
    ELSE RuleHitsFold(RuleHitsInsert(rule_hits, Head(matches)), Tail(matches))

\* The denominator every value of one run is held over
ScoreScale(len) == (DECAY_INVERSE - 1) * DECAY_INVERSE ^ len

Deduction_DecayOnly(weight, count, len) ==
    weight * DECAY_INVERSE ^ (len + 1 - count)

\* weight * (1.0 - DECAY.powi(count)) / (1.0 - DECAY), times ScoreScale(len)
Deduction(weight, count, len) ==
    weight * (DECAY_INVERSE ^ (len + 1) - DECAY_INVERSE ^ (len + 1 - count))

\* The second loop: base_score -= deduction for every rule with count > 0
RECURSIVE TotalDeduction(_, _, _)
TotalDeduction(rule_hits, ids, len) ==
    IF ids = {} THEN 0
    ELSE LET r     == CHOOSE x \in ids : TRUE
             count == Cardinality(rule_hits[r].files)
         IN  (IF count <= 0 THEN 0 ELSE Deduction(rule_hits[r].weight, count, len))
                 + TotalDeduction(rule_hits, ids \ { r }, len)

\* base_score.max(0.0)
ClampZero(numerator) == IF numerator < 0 THEN 0 ELSE numerator

\* f32::round of a non-negative numerator / scale: halves go away from zero
RoundScaled(numerator, scale) == (2 * numerator + scale) \div (2 * scale)

calculate_score_weighted(matches) ==
    LET len       == Len(matches)
        rule_hits == RuleHitsFold(<<>>, matches)
        base      == BASE_SCORE * ScoreScale(len)
                        - TotalDeduction(rule_hits, DOMAIN rule_hits, len)
    IN  RoundScaled(ClampZero(base), ScoreScale(len))

----------------------------------------------------------------------------
(* Inputs of the scorer *)

\* The longest list of matches handed to the scorer
MaxMatches == 3

ScoreRuleIds == { "RM_RF_ROOT", "SUDO" }

ScoreWeights == { 0 - 10, 0, 15, 100 }

ScoreFiles == { "f1", "f2", "f3" }

ScoreMatches ==
    { [ rule_id |-> r, weight |-> w, file_path |-> f ] :
        r \in ScoreRuleIds, w \in ScoreWeights, f \in ScoreFiles }

----------------------------------------------------------------------------
(* The scorer specification: a list of matches is built up match by match  *)
(* and scored.                                                             *)

ScoreFrame == UNCHANGED <<store, last, gate, walk, driver, text_in, text_out, rescan>>

PushMatch(matched) ==
    /\ Len(score_in) < MaxMatches
    /\ score_in' = Append(score_in, matched)
    /\ score_out' = None
    /\ ScoreFrame

Score ==
    /\ score_out = None
    /\ score_out' = Some(calculate_score_weighted(score_in))
    /\ UNCHANGED score_in
    /\ ScoreFrame

NextScore ==
    \/ \E matched \in ScoreMatches : PushMatch(matched)
    \/ Score

SpecScore == Init /\ [][NextScore]_vars

----------------------------------------------------------------------------
(* Properties of the scorer *)

Scored == score_out # None

\* C9: the score is an integer between 0 and 100 for every list of
\* matches, whatever the weights (zero and negative ones included).
C9_ScoreInRange ==
    Scored => score_out[1] \in 0..100

C9_Witness ==
    /\ Scored
    /\ score_out[1] = 0
    /\ \E i \in 1..Len(score_in) : score_in[i].weight < 0
    /\ \E i \in 1..Len(score_in) : score_in[i].weight = 0

\* Every match of a rule carries that rule's weight
ConsistentWeights(matches) ==
    \A i, j \in 1..Len(matches) :
        matches[i].rule_id = matches[j].rule_id => matches[i].weight = matches[j].weight

RulesIn(matches) == { matches[i].rule_id : i \in 1..Len(matches) }

WeightIn(matches, r) ==
    LET i == CHOOSE k \in 1..Len(matches) : matches[k].rule_id = r
    IN  matches[i].weight

\* n_r: the number of distinct files the rule fired in
DistinctFiles(matches, r) ==
    Cardinality({ matches[i].file_path :
                    i \in { k \in 1..Len(matches) : matches[k].rule_id = r } })

\* Sum over the rules of w * (1 - 0.5^n) / (1 - 0.5) = w * (2^n - 1) / 2^(n-1),
\* as a numerator over 2^len
RECURSIVE DecaySum(_, _)
DecaySum(matches, rules) ==
    IF rules = {} THEN 0
    ELSE LET r == CHOOSE x \in rules : TRUE
             n == DistinctFiles(matches, r)
         IN  WeightIn(matches, r) * (2 ^ n - 1) * 2 ^ (Len(matches) - (n - 1))
                + DecaySum(matches, rules \ { r })

\* max(0, round(100 - sum)), the sum ranging over the given rules
DecayScore(matches, rules) ==
    LET den == 2 ^ Len(matches)
        num == 100 * den - DecaySum(matches, rules)
    IN  IF num <= 0 THEN 0 ELSE (2 * num + den) \div (2 * den)

PositiveRules(matches) == { r \in RulesIn(matches) : WeightIn(matches, r) > 0 }

RemoveAt(s, i) == SubSeq(s, 1, i - 1) \o SubSeq(s, i + 1, Len(s))

\* The match at i repeats an earlier match of the same rule in the same file
IsRepeat(matches, i) ==
    \E j \in 1..(i - 1) :
        /\ matches[j].rule_id = matches[i].rule_id
        /\ matches[j].file_path = matches[i].file_path

IsNewFileOfMatchedRule(matches, matched) ==
    /\ matched.rule_id \in RulesIn(matches)
    /\ \A i \in 1..Len(matches) :
          matches[i].rule_id = matched.rule_id
              => matches[i].file_path # matched.file_path

\* The matches that can be added: one more file of a rule already matched,
\* carrying that rule's weight
MoreOfMatchedRule ==
    { matched \in ScoreMatches :
        /\ IsNewFileOfMatchedRule(score_in, matched)
        /\ ConsistentWeights(Append(score_in, matched)) }

\* C11: one more match of an already-matched rule, in a file where the rule
\* had not matched before, never increases the score: the score of the
\* longer list is lower than or equal to the score of the list.
C11_ScoreMonotone ==
    Scored
        => \A matched \in MoreOfMatchedRule :
              calculate_score_weighted(Append(score_in, matched)) <= score_out[1]

\* The score goes down with one added match and stays with another
C11_Witness ==
    /\ Scored
    /\ \E matched \in MoreOfMatchedRule :
          calculate_score_weighted(Append(score_in, matched)) < score_out[1]
    /\ \E matched \in MoreOfMatchedRule :
          calculate_score_weighted(Append(score_in, matched)) = score_out[1]

----------------------------------------------------------------------------
(* security/scanner.rs: file names and the rules that apply to them.       *)
(* A file name is the sequence of its dot-separated parts ("SKILL.md" is   *)
(* <<"SKILL", "md">>, ".git" is <<"", "git">>); a path is a sequence of    *)
(* names, relative to the scanned root.                                    *)

\* str::to_ascii_lowercase, part by part
AsciiLower(part) ==
    CASE part = "SKILL"  -> "skill"
      [] part = "Skill"  -> "skill"
      [] part = "RUN"    -> "run"
      [] part = "README" -> "readme"
      [] part = "MD"     -> "md"
      [] part = "SH"     -> "sh"
      [] OTHER           -> part

to_ascii_lowercase(name) == [ i \in 1..Len(name) |-> AsciiLower(name[i]) ]

\* Path::file_name
FileNameOf(file_path) ==
    IF file_path = <<>> THEN None ELSE Some(file_path[Len(file_path)])

\* Path::extension, lower-cased: none without a dot, none for ".name"
normalized_extension(file_path) ==
    LET file_name == FileNameOf(file_path)
    IN  IF file_name = None THEN None
        ELSE LET parts == file_name[1]
             IN  IF Len(parts) < 2 \/ (Len(parts) = 2 /\ parts[1] = "") THEN None
                 ELSE Some(AsciiLower(parts[Len(parts)]))

ShellExts == { "sh", "bash", "zsh", "ksh", "fish", "csh", "tcsh" }

is_shell_ext(ext) == ext # None /\ ext[1] \in ShellExts

PythonExts == { "py", "pyw", "pyi" }

NodeExts == { "js", "jsx", "ts", "tsx", "mjs", "cjs" }

PhpExts == { "php", "phtml", "php3", "php4", "php5", "php7", "php8" }

RubyExts == { "rb", "rake", "gemspec", "ru" }

JvmExts == { "java", "kt", "kts", "groovy" }

CSharpExts == { "cs", "csx" }

PowerShellExts == { "ps1", "psm1", "psd1" }

BatchExts == { "bat", "cmd" }

is_script_or_code_ext(ext) ==
    \/ is_shell_ext(ext)
    \/ /\ ext # None
       /\ ext[1] \in PythonExts \cup NodeExts \cup PhpExts \cup RubyExts \cup { "go" }
                        \cup JvmExts \cup CSharpExts \cup PowerShellExts \cup BatchExts

is_skill_md_ExactCase(file_path) ==
    LET file_name == FileNameOf(file_path)
    IN  file_name # None /\ file_name[1] = <<"SKILL", "md">>

\* name.eq_ignore_ascii_case("skill.md")
is_skill_md(file_path) ==
    LET file_name == FileNameOf(file_path)
    IN  file_name # None /\ to_ascii_lowercase(file_name[1]) = <<"skill", "md">>

ExtIn(ext, exts) == ext # None /\ ext[1] \in exts

rule_applies_to_extension(rule_id, ext) ==
    CASE rule_id \in { "PY_EVAL", "PY_EXEC", "OS_SYSTEM", "SUBPROCESS_SHELL",
                       "SUBPROCESS_CALL", "PY_URLLIB", "HTTP_REQUEST" }
            -> ExtIn(ext, PythonExts)
      [] rule_id \in { "NODE_CHILD_EXEC", "NODE_VM_RUN", "NODE_CHILD_SPAWN" }
            -> ExtIn(ext, NodeExts)
      [] rule_id = "PHP_EXEC" -> ExtIn(ext, PhpExts)
      [] rule_id = "RUBY_SYSTEM_EXEC" -> ExtIn(ext, RubyExts)
      [] rule_id = "GO_EXEC_COMMAND" -> ExtIn(ext, { "go" })
      [] rule_id \in { "JAVA_RUNTIME_EXEC", "JAVA_PROCESS_BUILDER" } -> ExtIn(ext, JvmExts)
      [] rule_id = "CSHARP_PROCESS_START" -> ExtIn(ext, CSharpExts)
      [] rule_id \in { "POWERSHELL_BYPASS_POLICY", "POWERSHELL_ENCODED_COMMAND",
                       "POWERSHELL_IEX_DOWNLOAD", "POWERSHELL_PIPE_IEX",
                       "POWERSHELL_RUN_KEY", "POWERSHELL_START_PROCESS" }
            -> ExtIn(ext, PowerShellExts)
      [] rule_id = "CMD_WRAPPER" -> ExtIn(ext, BatchExts \cup { "ps1" })
      [] rule_id \in { "CURL_PIPE_SH", "WGET_PIPE_SH", "BASE64_EXEC", "REVERSE_SHELL",
                       "CURL_POST", "NETCAT", "FTP_PROTOCOL" }
            -> is_script_or_code_ext(ext)
      [] rule_id \in { "SUDO", "CHMOD_777", "SUDOERS", "CRONTAB", "SSH_KEYS",
                       "STARTUP_FOLDER_PERSISTENCE", "SCHTASKS_CREATE" }
            -> is_script_or_code_ext(ext)
      [] rule_id = "REG_RUN_KEY_ADD" -> ExtIn(ext, BatchExts \cup { "ps1", "reg" })
      [] rule_id \in { "READ_SSH_PRIVATE_KEY", "READ_AWS_CREDENTIALS", "READ_ENV_FILE",
                       "READ_PASSWD", "READ_SHADOW", "READ_GIT_CREDENTIALS",
                       "READ_WINDOWS_SAM", "READ_WINDOWS_CREDENTIALS",
                       "READ_POWERSHELL_HISTORY", "READ_CHROME_LOGIN_DATA",
                       "READ_EDGE_LOGIN_DATA", "READ_FIREFOX_LOGINS",
                       "READ_DOCKER_CONFIG", "READ_NPMRC", "READ_PYPIRC", "READ_NETRC" }
            -> is_script_or_code_ext(ext)
      [] rule_id = "WEBSOCKET_CONNECT"
            -> ExtIn(ext, NodeExts \cup { "py", "rb" })
      [] OTHER -> TRUE

\* options.skip_readme: readme.md and readme.<locale>.md, in any case
IsReadmeName(file_name) ==
    LET lower == to_ascii_lowercase(file_name)
    IN  \/ lower = <<"readme", "md">>
        \/ Len(lower) >= 2 /\ lower[1] = "readme" /\ lower[Len(lower)] = "md"

----------------------------------------------------------------------------
(* The rule table and the matching of one file.                            *)
(* A line of text is the set of ids of the rules whose pattern matches it. *)

\* SecurityRules::get_all_patterns, with the weights of one scan
get_all_patterns(weights) ==
    << [ id |-> "RM_RF_ROOT", name |-> "RM_RF_ROOT", severity |-> "Critical",
         category |-> "Destructive", weight |-> weights[1], hard_trigger |-> TRUE ],
       [ id |-> "CURL_PIPE_SH", name |-> "CURL_PIPE_SH", severity |-> "Critical",
         category |-> "RemoteExec", weight |-> weights[2], hard_trigger |-> TRUE ],
       [ id |-> "SUDO", name |-> "SUDO", severity |-> "Medium",
         category |-> "Privilege", weight |-> weights[3], hard_trigger |-> FALSE ] >>

\* rule.pattern.is_match(line)
PatternIsMatch(rule, line) == rule.id \in line

\* The mark a line carries for a rule that the combined matcher reports on
\* it although the rule's own pattern does not match it
QuickOnly(id) ==
    CASE id = "RM_RF_ROOT"   -> "RM_RF_ROOT?"
      [] id = "CURL_PIPE_SH" -> "CURL_PIPE_SH?"
      [] id = "SUDO"         -> "SUDO?"
      [] OTHER               -> "?"

\* SecurityRules::quick_match: the indices of the rules whose pattern could
\* match, every rule whose pattern does match among them
quick_match(rules, line) ==
    { i \in 1..Len(rules) :
        PatternIsMatch(rules[i], line) \/ QuickOnly(rules[i].id) \in line }

\* The indices of a RegexSet match, in ascending order
RECURSIVE Ascending(_)
Ascending(indices) ==
    IF indices = {} THEN <<>>
    ELSE LET least == CHOOSE x \in indices : \A y \in indices : x <= y
         IN  <<least>> \o Ascending(indices \ { least })

map_severity(severity) ==
    CASE severity = "Critical" -> "Critical"
      [] severity = "High"     -> "Error"
      [] severity = "Medium"   -> "Warning"
      [] severity = "Low"      -> "Info"

map_category(category) ==
    CASE category = "Destructive"         -> "FileSystem"
      [] category = "RemoteExec"          -> "ProcessExecution"
      [] category = "CmdInjection"        -> "DangerousFunction"
      [] category = "Network"             -> "Network"
      [] category = "Privilege"           -> "ProcessExecution"
      [] category = "Secrets"             -> "DataExfiltration"
      [] category = "Persistence"         -> "ProcessExecution"
      [] category = "SensitiveFileAccess" -> "FileSystem"

MatchResult(rule, line, line_number, file_path) ==
    [ rule_id |-> rule.id, rule_name |-> rule.name, severity |-> rule.severity,
      category |-> rule.category, weight |-> rule.weight,
      hard_trigger |-> rule.hard_trigger, line_number |-> line_number,
      code_snippet |-> line, file_path |-> file_path ]

LineMatches_Unverified(rules, line, line_number, file_path) ==
    LET file_ext == normalized_extension(file_path)
        skill_md == is_skill_md(file_path)
        Kept(rule_idx) ==
            skill_md \/ rule_applies_to_extension(rules[rule_idx].id, file_ext)
        kept == SelectSeq(Ascending(quick_match(rules, line)), Kept)
    IN  [ k \in 1..Len(kept) |-> MatchResult(rules[kept[k]], line, line_number, file_path) ]

\* The inner loop over the rules quick_match reports for one line
LineMatches(rules, line, line_number, file_path) ==
    LET file_ext == normalized_extension(file_path)
        skill_md == is_skill_md(file_path)
        Kept(rule_idx) ==
            /\ skill_md \/ rule_applies_to_extension(rules[rule_idx].id, file_ext)
            /\ PatternIsMatch(rules[rule_idx], line)
        kept == SelectSeq(Ascending(quick_match(rules, line)), Kept)
    IN  [ k \in 1..Len(kept) |-> MatchResult(rules[kept[k]], line, line_number, file_path) ]

\* for (line_num, line) in content.lines().enumerate()
RECURSIVE FileMatchesFrom(_, _, _, _)
FileMatchesFrom(rules, lines, line_num, file_path) ==
    IF line_num >= Len(lines) THEN <<>>
    ELSE LineMatches(rules, lines[line_num + 1], line_num + 1, file_path)
            \o FileMatchesFrom(rules, lines, line_num + 1, file_path)

FileMatches(rules, lines, file_path) == FileMatchesFrom(rules, lines, 0, file_path)

\* t!("security.hard_trigger_issue", rule_name, file, line, description)
HardTriggerIssue(matched) ==
    <<"hard_trigger_issue", matched.rule_name, matched.file_path, matched.line_number>>

\* t!("security.hard_trigger_file_issue", rule_name = "SYMLINK", file, description)
SymlinkIssue(rel) == <<"hard_trigger_file_issue", "SYMLINK", rel>>

MatchIssue(matched) ==
    [ severity |-> map_severity(matched.severity),
      category |-> map_category(matched.category),
      description |-> matched.rule_name,
      line_number |-> Some(matched.line_number),
      file_path |-> Some(matched.file_path) ]

IsHardTrigger(matched) == matched.hard_trigger

----------------------------------------------------------------------------
(* scan_directory_with_options: the walk.                                  *)
(* A tree is the name of the scanned root and the entries under it in the  *)
(* order WalkDir would yield them were nothing skipped (a directory before *)
(* its contents), the root itself first with the empty path.               *)

MAX_SCAN_DEPTH == 20

MAX_FILES == 2000

SKIP_DIR_NAMES ==
    { <<"", "git">>, <<"node_modules">>, <<"target">>, <<"dist">>, <<"build">>,
      <<"__pycache__">>, <<"", "venv">>, <<"venv">> }

IsPrefix(p, q) == Len(p) <= Len(q) /\ SubSeq(q, 1, Len(p)) = p

\* entry.file_name(): the root's own name at depth 0
EntryFileName(tree, entry) ==
    IF entry.path = <<>> THEN tree.root_name ELSE entry.path[Len(entry.path)]

\* WalkDir.max_depth: the first entry at or after `from` that is not deeper
\* than MAX_SCAN_DEPTH
NextYield(entries, from) ==
    CHOOSE j \in from..(Len(entries) + 1) :
        /\ j <= Len(entries) => Len(entries[j].path) <= MAX_SCAN_DEPTH
        /\ \A k \in from..(j - 1) : Len(entries[k].path) > MAX_SCAN_DEPTH

\* iter.skip_current_dir() after the directory at i was yielded: the walk
\* resumes behind everything below that directory
AfterSubtree(entries, i) ==
    CHOOSE j \in (i + 1)..(Len(entries) + 1) :
        /\ j <= Len(entries) => ~IsPrefix(entries[i].path, entries[j].path)
        /\ \A k \in (i + 1)..(j - 1) : IsPrefix(entries[i].path, entries[k].path)

Walking == walk.pc = "walk" /\ walk.pos <= Len(walk.tree.entries)

Current == walk.tree.entries[walk.pos]

Advance(w) == [ w EXCEPT !.pos = NextYield(w.tree.entries, w.pos + 1) ]

ScanFrame ==
    UNCHANGED <<store, last, gate, score_in, score_out, driver, text_in, text_out, rescan>>

\* The locals of scan_directory_with_options before the loop
WalkStart(tree, skip_readme, weights) ==
    /\ walk.pc = "idle"
    /\ walk' = [ pc |-> "walk", op |-> "scan_directory", tree |-> tree,
                 skip_readme |-> skip_readme, rules |-> get_all_patterns(weights),
                 pos |-> NextYield(tree.entries, 1),
                 files_scanned |-> 0, blocked |-> FALSE, partial_scan |-> FALSE,
                 hard_trigger_issues |-> <<>>, issues |-> <<>>, matches |-> <<>>,
                 scanned_files |-> <<>>, skipped_files |-> <<>>, report |-> None ]
    /\ ScanFrame

SkipsDirectory(file_name) == file_name \in SKIP_DIR_NAMES

\* entry.file_type().is_dir()
WalkDirectory ==
    /\ Walking
    /\ Current.kind = "dir"
    /\ walk' = IF SkipsDirectory(EntryFileName(walk.tree, Current))
               THEN [ walk EXCEPT !.pos = NextYield(walk.tree.entries,
                                              AfterSubtree(walk.tree.entries, walk.pos)) ]
               ELSE Advance(walk)
    /\ ScanFrame

\* Neither a file nor a symlink (a special file)
WalkOther ==
    /\ Walking
    /\ Current.kind = "other"
    /\ walk' = Advance(walk)
    /\ ScanFrame

\* entry.file_type().is_symlink()
WalkSymlink ==
    /\ Walking
    /\ Current.kind = "symlink"
    /\ walk' = Advance([ walk EXCEPT
                  !.blocked = TRUE,
                  !.hard_trigger_issues = Append(@, SymlinkIssue(Current.path)),
                  !.issues = Append(@, [ severity |-> "Critical",
                                         category |-> "FileSystem",
                                         description |-> "SYMLINK",
                                         line_number |-> None,
                                         file_path |-> Some(Current.path) ]) ])
    /\ ScanFrame

AtFileCap_Exceeded == walk.files_scanned > MAX_FILES

AtFileCap == walk.files_scanned >= MAX_FILES

\* files_scanned >= MAX_FILES: the loop is left (break)
WalkFileCap ==
    /\ Walking
    /\ Current.kind = "file"
    /\ AtFileCap
    /\ walk' = [ walk EXCEPT
                  !.issues = Append(@, [ severity |-> "Warning",
                                         category |-> "Other",
                                         description |-> "max file limit",
                                         line_number |-> None,
                                         file_path |-> None ]),
                  !.partial_scan = TRUE,
                  !.pos = Len(walk.tree.entries) + 1 ]
    /\ ScanFrame

SkipsReadme == walk.skip_readme /\ IsReadmeName(EntryFileName(walk.tree, Current))

\* A file the loop goes on to open
OpensFile ==
    /\ Walking
    /\ Current.kind = "file"
    /\ ~AtFileCap
    /\ ~SkipsReadme

WalkReadme ==
    /\ Walking
    /\ Current.kind = "file"
    /\ ~AtFileCap
    /\ SkipsReadme
    /\ walk' = Advance(walk)
    /\ ScanFrame

\* File::open or read_to_end failed
WalkUnreadable ==
    /\ OpensFile
    /\ Current.read \in { "open_error", "read_error" }
    /\ walk' = Advance([ walk EXCEPT
                  !.issues = Append(@, [ severity |-> "Warning",
                                         category |-> "Other",
                                         description |-> "failed to read",
                                         line_number |-> None,
                                         file_path |-> Some(Current.path) ]),
                  !.skipped_files = Append(@, Current.path),
                  !.partial_scan = TRUE ])
    /\ ScanFrame

AfterTruncation_Silent(w, entry) ==
    IF entry.truncated THEN [ w EXCEPT !.partial_scan = TRUE ] ELSE w

\* buf.len() > MAX_BYTES_PER_FILE: the buffer is cut and the cut reported
AfterTruncation(w, entry) ==
    IF entry.truncated
    THEN [ w EXCEPT
            !.issues = Append(@, [ severity |-> "Info",
                                   category |-> "Other",
                                   description |-> "file truncated",
                                   line_number |-> None,
                                   file_path |-> Some(entry.path) ]),
            !.partial_scan = TRUE ]
    ELSE w

\* No text was decoded and the buffer holds a NUL byte
WalkBinary ==
    /\ OpensFile
    /\ Current.read = "binary"
    /\ walk' = Advance([ AfterTruncation(walk, Current) EXCEPT
                  !.skipped_files = Append(@, Current.path),
                  !.partial_scan = TRUE ])
    /\ ScanFrame

RecordMatch_OncePerScan(w, matched) ==
    [ w EXCEPT
        !.hard_trigger_issues = IF matched.hard_trigger /\ ~w.blocked
                                THEN Append(@, HardTriggerIssue(matched)) ELSE @,
        !.blocked = IF matched.hard_trigger THEN TRUE ELSE @,
        !.matches = Append(@, matched),
        !.issues = Append(@, MatchIssue(matched)) ]

\* What the loop does with one match: a hard trigger blocks and leaves its
\* message, and every match is kept and reported as an issue
RecordMatch(w, matched) ==
    [ w EXCEPT
        !.blocked = IF matched.hard_trigger THEN TRUE ELSE @,
        !.hard_trigger_issues = IF matched.hard_trigger
                                THEN Append(@, HardTriggerIssue(matched)) ELSE @,
        !.matches = Append(@, matched),
        !.issues = Append(@, MatchIssue(matched)) ]

RECURSIVE RecordMatches(_, _)
RecordMatches(w, matches) ==
    IF matches = <<>> THEN w
    ELSE RecordMatches(RecordMatch(w, Head(matches)), Tail(matches))

\* The file is text: it counts as scanned and its lines are matched
WalkText ==
    /\ OpensFile
    /\ Current.read = "text"
    /\ walk' = Advance(RecordMatches(
                  [ AfterTruncation(walk, Current) EXCEPT
                      !.scanned_files = Append(@, Current.path),
                      !.files_scanned = @ + 1 ],
                  FileMatches(walk.rules, Current.lines, Current.path)))
    /\ ScanFrame

\* After the loop: the score and the report
WalkFinish ==
    /\ walk.pc = "walk"
    /\ walk.pos > Len(walk.tree.entries)
    /\ walk' = [ walk EXCEPT
                  !.pc = "done",
                  !.report = Some([ score |-> calculate_score_weighted(walk.matches),
                                    issues |-> walk.issues,
                                    blocked |-> walk.blocked,
                                    hard_trigger_issues |-> walk.hard_trigger_issues,
                                    scanned_files |-> walk.scanned_files,
                                    partial_scan |-> walk.partial_scan,
                                    skipped_files |-> walk.skipped_files ]) ]
    /\ ScanFrame

\* scan_file: one message per hard-trigger match
HardTriggerIssues(matches) ==
    LET hard == SelectSeq(matches, IsHardTrigger)
    IN  [ i \in 1..Len(hard) |-> HardTriggerIssue(hard[i]) ]

\* scan_file(content, file_path)
ScanFile(lines, file_path, weights) ==
    /\ walk.pc = "idle"
    /\ LET rules   == get_all_patterns(weights)
           matches == FileMatches(rules, lines, file_path)
       IN  walk' = [ pc |-> "done", op |-> "scan_file",
                     tree |-> [ root_name |-> <<>>,
                                entries |-> << [ kind |-> "file", path |-> file_path,
                                                 read |-> "text", truncated |-> FALSE,
                                                 lines |-> lines ] >> ],
                     skip_readme |-> FALSE, rules |-> rules, pos |-> 1,
                     files_scanned |-> 1,
                     blocked |-> SelectSeq(matches, IsHardTrigger) # <<>>,
                     partial_scan |-> FALSE,
                     hard_trigger_issues |-> HardTriggerIssues(matches),
                     issues |-> [ i \in 1..Len(matches) |-> MatchIssue(matches[i]) ],
                     matches |-> matches,
                     scanned_files |-> << file_path >>,
                     skipped_files |-> <<>>,
                     report |-> Some([ score |-> calculate_score_weighted(matches),
                                       issues |-> [ i \in 1..Len(matches) |->
                                                      MatchIssue(matches[i]) ],
                                       blocked |-> SelectSeq(matches, IsHardTrigger) # <<>>,
                                       hard_trigger_issues |-> HardTriggerIssues(matches),
                                       scanned_files |-> << file_path >>,
                                       partial_scan |-> FALSE,
                                       skipped_files |-> <<>> ]) ]
    /\ ScanFrame

----------------------------------------------------------------------------
(* Inputs of the scanner *)

\* The most entries under the root of a generated tree
MaxEntries == 2

RunSh == <<"run", "sh">>

NotesMd == <<"notes", "md">>

SkillMd == <<"SKILL", "md">>

ReadmeMd == <<"README", "md">>

LinkName == <<"link">>

NodeModules == <<"node_modules">>

DirEntry(path) == [ kind |-> "dir", path |-> path ]

SymlinkEntry(path) == [ kind |-> "symlink", path |-> path ]

OtherEntry(path) == [ kind |-> "other", path |-> path ]

FileEntry(path, read, truncated, lines) ==
    [ kind |-> "file", path |-> path, read |-> read, truncated |-> truncated,
      lines |-> lines ]

RootNames == { <<"skill">>, <<"dist">> }

\* The weights the rule table carries in one scan
RuleWeights == { <<100, 90, 15>>, <<0, 0, 15>> }

EntryPool ==
    { DirEntry(<<NodeModules>>),
      SymlinkEntry(<<LinkName>>),
      SymlinkEntry(<<NodeModules, LinkName>>),
      OtherEntry(<<<<"fifo">>>>),
      FileEntry(<<RunSh>>, "text", FALSE,
                << {"RM_RF_ROOT", "CURL_PIPE_SH", "SUDO"}, {"SUDO?"}, {"CURL_PIPE_SH"} >>),
      FileEntry(<<RunSh>>, "text", TRUE, << {} >>),
      FileEntry(<<NotesMd>>, "text", FALSE, << {"RM_RF_ROOT", "CURL_PIPE_SH"} >>),
      FileEntry(<<SkillMd>>, "text", FALSE, << {"CURL_PIPE_SH", "RM_RF_ROOT?"}, {"SUDO"} >>),
      FileEntry(<<ReadmeMd>>, "text", FALSE, << {"RM_RF_ROOT"} >>),
      FileEntry(<<<<"data", "bin">>>>, "binary", FALSE, <<>>),
      FileEntry(<<<<"big", "bin">>>>, "binary", TRUE, <<>>),
      FileEntry(<<<<"locked", "sh">>>>, "open_error", FALSE, <<>>),
      FileEntry(<<NodeModules, RunSh>>, "read_error", FALSE, <<>>) }

\* The entries are in walk order: no path twice, and an entry inside a
\* directory follows that directory or another entry inside it
WalkOrdered(entries) ==
    /\ \A i, j \in 1..Len(entries) : i # j => entries[i].path # entries[j].path
    /\ \A i \in 1..Len(entries) :
          Len(entries[i].path) > 1
            => /\ i > 1
               /\ LET parent == SubSeq(entries[i].path, 1, Len(entries[i].path) - 1)
                      before == entries[i - 1]
                  IN  \/ before.kind = "dir" /\ before.path = parent
                      \/ /\ Len(before.path) = Len(entries[i].path)
                         /\ SubSeq(before.path, 1, Len(before.path) - 1) = parent

SmallTrees ==
    { [ root_name |-> r, entries |-> << DirEntry(<<>>) >> \o s ] :
        r \in RootNames,
        s \in { t \in SeqsUpTo(EntryPool, MaxEntries) : WalkOrdered(t) } }

\* MAX_SCAN_DEPTH nested directories and a symlink inside the innermost
DeepTree ==
    [ root_name |-> <<"skill">>,
      entries |-> << DirEntry(<<>>) >>
                    \o [ d \in 1..MAX_SCAN_DEPTH |-> DirEntry([ k \in 1..d |-> <<"d">> ]) ]
                    \o << SymlinkEntry([ k \in 1..MAX_SCAN_DEPTH |-> <<"d">> ]
                                          \o <<LinkName>>) >> ]

\* MAX_SCAN_DEPTH nested directories, a script in the innermost and a clean
\* file under the root
DeepFileTree ==
    [ root_name |-> <<"skill">>,
      entries |-> << DirEntry(<<>>) >>
                    \o [ d \in 1..MAX_SCAN_DEPTH |-> DirEntry([ k \in 1..d |-> <<"d">> ]) ]
                    \o << FileEntry([ k \in 1..MAX_SCAN_DEPTH |-> <<"d">> ] \o <<RunSh>>,
                                    "text", FALSE, << {"RM_RF_ROOT"} >>),
                          FileEntry(<<NotesMd>>, "text", FALSE, << {} >>) >> ]

\* One file more than MAX_FILES, all clean, and a symlink behind them
WideTree ==
    [ root_name |-> <<"skill">>,
      entries |-> << DirEntry(<<>>) >>
                    \o [ i \in 1..(MAX_FILES + 1) |->
                           FileEntry(<< <<ToString(i), "txt">> >>, "text", FALSE, << {} >>) ]
                    \o << SymlinkEntry(<<LinkName>>) >> ]

\* The i-th of many clean text files directly under the root
CleanFile(i) == FileEntry(<< <<ToString(i), "txt">> >>, "text", FALSE, << {} >>)

\* Exactly MAX_FILES clean files and a symlink behind them
ExactTree ==
    [ root_name |-> <<"skill">>,
      entries |-> << DirEntry(<<>>) >>
                    \o [ i \in 1..MAX_FILES |-> CleanFile(i) ]
                    \o << SymlinkEntry(<<LinkName>>) >> ]

\* Exactly MAX_FILES clean files, then a README and a symlink
ReadmeLastTree ==
    [ root_name |-> <<"skill">>,
      entries |-> << DirEntry(<<>>) >>
                    \o [ i \in 1..MAX_FILES |-> CleanFile(i) ]
                    \o << FileEntry(<<ReadmeMd>>, "text", FALSE, << {"RM_RF_ROOT"} >>),
                          SymlinkEntry(<<LinkName>>) >> ]

\* A binary file, then MAX_FILES clean files and a symlink
BinaryFirstTree ==
    [ root_name |-> <<"skill">>,
      entries |-> << DirEntry(<<>>),
                     FileEntry(<<<<"data", "bin">>>>, "binary", FALSE, <<>>) >>
                    \o [ i \in 1..MAX_FILES |-> CleanFile(i) ]
                    \o << SymlinkEntry(<<LinkName>>) >> ]

\* The trees around the file cap
LongTrees == { WideTree, ExactTree, ReadmeLastTree, BinaryFirstTree }

Trees == SmallTrees \cup { DeepTree, DeepFileTree } \cup LongTrees

FileContents ==
    { << {} >>,
      << {"RM_RF_ROOT", "CURL_PIPE_SH"}, {"SUDO"}, {"RM_RF_ROOT"} >>,
      << {"SUDO", "RM_RF_ROOT?"}, {"CURL_PIPE_SH?"} >> }

FilePaths ==
    { <<RunSh>>, <<NotesMd>>, <<SkillMd>>, << <<"skill", "MD">> >>, << <<"RUN", "SH">> >>,
      << <<"docs">>, <<"Skill", "md">> >> }

----------------------------------------------------------------------------
(* count_scan_files *)

\* The walk yields the entry: it is no deeper than MAX_SCAN_DEPTH and no
\* directory above it, the root included, is one the walk skips
Reached(tree, entry) ==
    /\ Len(entry.path) <= MAX_SCAN_DEPTH
    /\ \A k \in 0..(Len(entry.path) - 1) :
          ~SkipsDirectory(IF k = 0 THEN tree.root_name ELSE entry.path[k])

\* The regular files the walk yields
ReachedFiles(tree) ==
    { i \in 1..Len(tree.entries) :
        tree.entries[i].kind = "file" /\ Reached(tree, tree.entries[i]) }

\* total += 1 for every regular file the walk yields that is not a README
\* the options leave out; the loop is left when total reaches MAX_FILES
count_scan_files(tree, skip_readme) ==
    Minimum(Cardinality({ i \in ReachedFiles(tree) :
                            ~(skip_readme
                                /\ IsReadmeName(EntryFileName(tree, tree.entries[i]))) }),
            MAX_FILES)

\* The directories that are counted: the long and the deep ones, and the
\* roots with one entry
CountedTrees ==
    LongTrees \cup { DeepTree, DeepFileTree }
        \cup { [ root_name |-> r, entries |-> << DirEntry(<<>>), e >> ] :
                 r \in RootNames, e \in EntryPool }

CountScanFiles(tree, skip_readme) ==
    /\ walk.pc = "idle"
    /\ walk' = [ pc |-> "counted", op |-> "count_scan_files", tree |-> tree,
                 skip_readme |-> skip_readme,
                 total |-> count_scan_files(tree, skip_readme) ]
    /\ ScanFrame

----------------------------------------------------------------------------
(* The scanner specification *)

NextScan ==
    \/ \E tree \in Trees \ LongTrees, skip_readme \in BOOLEAN, weights \in RuleWeights :
          WalkStart(tree, skip_readme, weights)
    \/ \E tree \in LongTrees : WalkStart(tree, TRUE, <<100, 90, 15>>)
    \/ WalkDirectory
    \/ WalkOther
    \/ WalkSymlink
    \/ WalkFileCap
    \/ WalkReadme
    \/ WalkUnreadable
    \/ WalkBinary
    \/ WalkText
    \/ WalkFinish
    \/ \E lines \in FileContents, file_path \in FilePaths, weights \in RuleWeights :
          ScanFile(lines, file_path, weights)
    \/ \E tree \in CountedTrees, skip_readme \in BOOLEAN : CountScanFiles(tree, skip_readme)

SpecScan == Init /\ [][NextScan]_vars

----------------------------------------------------------------------------
(* Properties of the scanner *)

ScanDone == walk.pc = "done"

ScanReport == walk.report[1]

IsMatchMessage(message) == message[1] = "hard_trigger_issue"

\* C3: in scan_file and in scan_directory_with_options alike, when a match
\* comes from a hard-trigger rule the report is blocked, and it carries
\* one hard-trigger message for every such match, in the order of the
\* matches, whatever the weights and the score.
C3_HardTriggerBlocks ==
    ScanDone =>
        LET hard == SelectSeq(walk.matches, IsHardTrigger)
        IN  /\ hard # <<>> => ScanReport.blocked
            /\ SelectSeq(ScanReport.hard_trigger_issues, IsMatchMessage)
                  = [ i \in 1..Len(hard) |-> HardTriggerIssue(hard[i]) ]

C3_Witness ==
    /\ ScanDone
    /\ walk.op = "scan_directory"
    /\ Len(SelectSeq(walk.matches, IsHardTrigger)) >= 2
    /\ ScanReport.score = 100
    /\ ScanReport.blocked

\* C4: a scanned tree with a symlink anywhere under its root gives a
\* blocked report with a SYMLINK hard-trigger message naming the link's
\* relative path.
C4_SymlinkAlwaysBlocks ==
    (ScanDone /\ walk.op = "scan_directory") =>
        \A i \in 1..Len(walk.tree.entries) :
            walk.tree.entries[i].kind = "symlink"
              => /\ ScanReport.blocked
                 /\ \E k \in 1..Len(ScanReport.hard_trigger_issues) :
                       ScanReport.hard_trigger_issues[k]
                          = SymlinkIssue(walk.tree.entries[i].path)

\* The files whose text a complete scan matches: readable text, and not a
\* README the options leave out
EligibleFiles(tree, skip_readme) ==
    { i \in ReachedFiles(tree) :
        /\ tree.entries[i].read = "text"
        /\ ~(skip_readme /\ IsReadmeName(EntryFileName(tree, tree.entries[i]))) }

IsCapIssue(issue) == issue.description = "max file limit"

CapIssues == SelectSeq(ScanReport.issues, IsCapIssue)

DirectoryScanDone == ScanDone /\ walk.op = "scan_directory"

\* C21 as stated, an eligible file being one a complete scan would match:
\* with exactly MAX_FILES of them the cap leaves no trace and all are
\* scanned, with MAX_FILES + 1 the report is partial, carries the
\* warning, and MAX_FILES files were scanned.
C21_FileCapBoundary ==
    DirectoryScanDone =>
        LET eligible == EligibleFiles(walk.tree, walk.skip_readme)
        IN  /\ Cardinality(eligible) = MAX_FILES
                => /\ CapIssues = <<>>
                   /\ Len(ScanReport.scanned_files) = MAX_FILES
            /\ Cardinality(eligible) = MAX_FILES + 1
                => /\ ScanReport.partial_scan
                   /\ Len(CapIssues) = 1
                   /\ Len(ScanReport.scanned_files) = MAX_FILES

\* The regular files the walk yields after MAX_FILES files were scanned
BehindCap(tree, skip_readme) ==
    LET eligible == EligibleFiles(tree, skip_readme)
    IN  { i \in ReachedFiles(tree) :
            /\ i > MAX_FILES
            /\ Cardinality({ j \in eligible : j < i }) >= MAX_FILES }

PathsFrom(tree, from) == { tree.entries[i].path : i \in from..Len(tree.entries) }

\* C21 amended: the cap counts the files that were scanned; a skipped
\* README, an unreadable or a binary file does not count. The walk is cut
\* exactly when it yields a regular file, of any kind, after MAX_FILES
\* files were scanned: the report is then partial with one warning as its
\* last issue, MAX_FILES files were scanned, and nothing from that file on
\* (a symlink included) is scanned, skipped or reported. A tree with at
\* most MAX_FILES regular files is never cut, and an uncut scan scans
\* every eligible file. The scan returns a report in every case.
C21_FileCapCountsScanned ==
    DirectoryScanDone =>
        LET tree     == walk.tree
            eligible == EligibleFiles(tree, walk.skip_readme)
            behind   == BehindCap(tree, walk.skip_readme)
        IN  /\ walk.report # None
            /\ Len(ScanReport.scanned_files) <= MAX_FILES
            /\ (CapIssues # <<>>) <=> (behind # {})
            /\ Cardinality(ReachedFiles(tree)) <= MAX_FILES => CapIssues = <<>>
            /\ CapIssues = <<>>
                => \A i \in eligible : tree.entries[i].path \in Range(ScanReport.scanned_files)
            /\ CapIssues # <<>>
                => LET cut  == CHOOSE i \in behind : \A k \in behind : i <= k
                       rest == PathsFrom(tree, cut)
                   IN  /\ ScanReport.partial_scan
                       /\ Len(CapIssues) = 1
                       /\ IsCapIssue(ScanReport.issues[Len(ScanReport.issues)])
                       /\ Len(ScanReport.scanned_files) = MAX_FILES
                       /\ Range(ScanReport.scanned_files) \cap rest = {}
                       /\ Range(ScanReport.skipped_files) \cap rest = {}
                       /\ \A k \in 1..Len(ScanReport.issues) :
                             ScanReport.issues[k].file_path # None
                                => ScanReport.issues[k].file_path[1] \notin rest

\* A tree with exactly MAX_FILES eligible files whose scan the cap cut
C21_Witness ==
    /\ DirectoryScanDone
    /\ Cardinality(EligibleFiles(walk.tree, walk.skip_readme)) = MAX_FILES
    /\ CapIssues # <<>>
    /\ ScanReport.partial_scan
    /\ Len(ScanReport.scanned_files) = MAX_FILES

\* The files whose lines were matched, with their content
ScannedEntries ==
    { entry \in Range(walk.tree.entries) :
        entry.kind = "file" /\ entry.path \in Range(walk.scanned_files) }

\* The scan holds a match of the rule on line n of the file
HasMatch(entry, n, rule) ==
    \E k \in 1..Len(walk.matches) :
        /\ walk.matches[k].rule_id = rule.id
        /\ walk.matches[k].file_path = entry.path
        /\ walk.matches[k].line_number = n

NamedSkillMd(path) ==
    path # <<>> /\ to_ascii_lowercase(path[Len(path)]) = <<"skill", "md">>

AcceptsExtension(rule, path) ==
    rule_applies_to_extension(rule.id, normalized_extension(path))

\* C22: in scan_directory_with_options and in scan_file alike, a rule has
\* a match on a line of a scanned file exactly when its pattern matches
\* the line and either its file-type predicate accepts the file's
\* lower-cased extension or the file is named SKILL.md in any case.
C22_ExtensionGateExceptSkillMd ==
    ScanDone =>
        \A entry \in ScannedEntries :
            \A n \in 1..Len(entry.lines), i \in 1..Len(walk.rules) :
                HasMatch(entry, n, walk.rules[i])
                    <=> /\ PatternIsMatch(walk.rules[i], entry.lines[n])
                        /\ \/ NamedSkillMd(entry.path)
                           \/ AcceptsExtension(walk.rules[i], entry.path)

\* A directory scan with a match in SKILL.md of a rule that does not
\* accept "md", and another scanned file where such a rule's pattern
\* matches a line without giving a match
C22_Witness ==
    /\ DirectoryScanDone
    /\ \E entry \in ScannedEntries, i \in 1..Len(walk.rules) :
          /\ NamedSkillMd(entry.path)
          /\ ~AcceptsExtension(walk.rules[i], entry.path)
          /\ \E n \in 1..Len(entry.lines) : HasMatch(entry, n, walk.rules[i])
    /\ \E entry \in ScannedEntries, i \in 1..Len(walk.rules) :
          /\ ~NamedSkillMd(entry.path)
          /\ \E n \in 1..Len(entry.lines) :
                /\ PatternIsMatch(walk.rules[i], entry.lines[n])
                /\ ~HasMatch(entry, n, walk.rules[i])

\* Every rule of the table tried on the line, in table order
DirectLineMatches(rules, line, line_number, path) ==
    LET Hit(i) ==
            /\ NamedSkillMd(path) \/ AcceptsExtension(rules[i], path)
            /\ PatternIsMatch(rules[i], line)
        hits == SelectSeq([ i \in 1..Len(rules) |-> i ], Hit)
    IN  [ k \in 1..Len(hits) |-> MatchResult(rules[hits[k]], line, line_number, path) ]

RECURSIVE DirectFileMatches(_, _, _)
DirectFileMatches(rules, entry, n) ==
    IF n > Len(entry.lines) THEN <<>>
    ELSE DirectLineMatches(rules, entry.lines[n], n, entry.path)
            \o DirectFileMatches(rules, entry, n + 1)

\* The matches the scan holds for one file, in the order it found them
MatchesOf(path) ==
    LET InFile(matched) == matched.file_path = path
    IN  SelectSeq(walk.matches, InFile)

\* The combined matcher reported a rule on a line of the file that the
\* rule's pattern does not match
QuickOverReports(entry) ==
    \E n \in 1..Len(entry.lines), i \in 1..Len(walk.rules) :
        /\ i \in quick_match(walk.rules, entry.lines[n])
        /\ ~PatternIsMatch(walk.rules[i], entry.lines[n])

\* C23: for every scanned file, the matches found by running the quick
\* filter and then the patterns of the rules it reports are the matches
\* found by trying every applicable rule's pattern on every line: the same
\* rules on the same lines in the same order.
C23_TwoStageEqualsDirect ==
    ScanDone =>
        /\ \A entry \in ScannedEntries :
              MatchesOf(entry.path) = DirectFileMatches(walk.rules, entry, 1)
        /\ \A k \in 1..Len(walk.matches) :
              \E entry \in ScannedEntries : walk.matches[k].file_path = entry.path

\* A scan with matches, of a file on which the quick filter over-reports
C23_Witness ==
    /\ DirectoryScanDone
    /\ Len(walk.matches) >= 2
    /\ \E entry \in ScannedEntries :
          /\ QuickOverReports(entry)
          /\ MatchesOf(entry.path) # <<>>

----------------------------------------------------------------------------
(* services/claude_cli.rs: the PTY driver.                                 *)
(* Time is counted in ticks of TickMs milliseconds. The reader thread and  *)
(* the child process are the environment: the thread sends chunks and may  *)
(* finish, the child may exit, at any moment.                              *)

\* The length of one tick in milliseconds
TickMs == 50

Ticks(ms) == ms \div TickMs

\* rx.recv_timeout(Duration::from_millis(200)) in the read loop
RECV_TIMEOUT_MS == 200

\* trust_attempts < 3
MAX_TRUST_ATTEMPTS == 3

\* last.elapsed() >= Duration::from_millis(400)
TRUST_GAP_MS == 400

\* drain_start.elapsed() < Duration::from_millis(300)
DRAIN_MS == 300

\* rx.recv_timeout(Duration::from_millis(50)) in the drain loop
DRAIN_RECV_MS == 50

\* wait_start.elapsed() < Duration::from_secs(2)
REAP_WAIT_MS == 2000

\* join_start.elapsed() < Duration::from_secs(2)
JOIN_WAIT_MS == 2000

\* thread::sleep(Duration::from_millis(50))
SLEEP_MS == 50

\* fn is_workspace_trust_prompt
is_workspace_trust_prompt(output) ==
    LET text == to_lowercase(output)
    IN  \/ Contains(text, <<"quick", "safety", "check">>)
        \/ /\ Contains(text, <<"trust", "this", "folder">>)
           /\ Contains(text, <<"enter", "to", "confirm">>)
        \/ /\ Contains(text, <<"accessing", "workspace">>)
           /\ Contains(text, <<"trust">>)

----------------------------------------------------------------------------
(* Inputs of the driver *)

\* The most words one reader.read() gives
MaxChunkLen == 3

ClaudeCommand(args, timeout) == [ args |-> args, timeout |-> timeout ]

\* The batches handed to run; command.timeout is in milliseconds
Batches ==
    { << ClaudeCommand(<<"plugin", "install">>, 1300) >>,
      << ClaudeCommand(<<"plugin", "marketplace", "add">>, 200),
         ClaudeCommand(<<"plugin", "install">>, 200) >> }

\* Everything a child would print if it were left to run; the reader
\* thread passes it on in chunks of any size
Transcripts ==
    { <<"Quick", "safety", "check", "Enter", "to", "confirm">>,
      <<"installed">> }

\* How long a recv_timeout of the read loop waits before a chunk arrives
RecvWaits == { 0, Ticks(RECV_TIMEOUT_MS) \div 2 }

\* The same for the drain loop
DrainWaits == { 0, Ticks(DRAIN_RECV_MS) }

\* The steps of run_command at which an error is returned with `?`
SpawnStages == { "openpty", "spawn_command", "try_clone_reader", "take_writer" }

----------------------------------------------------------------------------
(* ClaudeCli::run and run_command *)

RECURSIVE JoinArgs(_)
\* command.args.join(" ")
JoinArgs(args) ==
    IF Len(args) <= 1 THEN args
    ELSE <<Head(args), " ">> \o JoinArgs(Tail(args))

DriverFrame ==
    UNCHANGED <<store, last, gate, walk, score_in, score_out, text_in, text_out, rescan>>

Running == driver.pc \notin { "idle", "returned" }

\* A command has been spawned and run_command has not returned
InCommand == driver.pc \in { "read", "drain", "kill", "reap", "join" }

CurrentCommand == driver.commands[driver.index]

\* The locals of read_until_exit_with_prompts are gone when it returns,
\* and the channel is not read again
NoLocals(d) ==
    [ d EXCEPT !.elapsed = 0, !.trust_attempts = 0, !.last_trust_sent = None,
               !.sent = <<>>, !.drain_elapsed = 0,
               !.transcript = <<>>, !.produced = 0, !.channel = "none" ]

\* let mut raw_log = String::new(); let mut outputs = Vec::new()
RunStart(commands) ==
    /\ driver.pc = "idle"
    /\ driver' = [ pc |-> "next", commands |-> commands, index |-> 1,
                   outputs |-> <<>>, raw_log |-> <<>>, result |-> "none",
                   spawned |-> <<>>, transcript |-> <<>>, produced |-> 0,
                   child |-> "none", reader |-> "none", channel |-> "none",
                   reader_handle |-> "none", buffer |-> <<>>, waited |-> 0,
                   elapsed |-> 0, trust_attempts |-> 0, last_trust_sent |-> None,
                   sent |-> <<>>, drain_elapsed |-> 0, unkilled |-> {} ]
    /\ DriverFrame

ReturnErr_KeepsOutputs(d) ==
    [ d EXCEPT !.pc = "returned", !.result = "Ok" ]

\* run_command(command)?: the error leaves run at once, outputs and
\* raw_log are dropped
ReturnErr(d) ==
    [ d EXCEPT !.pc = "returned", !.result = "Err",
               !.outputs = <<>>, !.raw_log = <<>> ]

\* openpty, spawn_command, try_clone_reader or take_writer fails
SpawnFails(stage) ==
    /\ driver.pc = "next"
    /\ driver.index <= Len(driver.commands)
    /\ LET after_spawn == stage \in { "try_clone_reader", "take_writer" }
           spawned == IF after_spawn
                      THEN Append(driver.spawned, CurrentCommand.args)
                      ELSE driver.spawned
       IN  driver' = ReturnErr([ driver EXCEPT
                                   !.spawned = spawned,
                                   !.child = IF after_spawn THEN "running" ELSE @,
                                   !.unkilled = IF after_spawn
                                                THEN @ \cup { driver.index } ELSE @ ])
    /\ DriverFrame

\* The child runs on the PTY and the reader thread is started
Spawn(transcript) ==
    /\ driver.pc = "next"
    /\ driver.index <= Len(driver.commands)
    /\ driver' = [ driver EXCEPT
                     !.pc = "read",
                     !.spawned = Append(driver.spawned, CurrentCommand.args),
                     !.child = "running", !.reader = "running",
                     !.unkilled = @ \cup { driver.index },
                     !.channel = "open", !.reader_handle = "none",
                     !.transcript = transcript, !.produced = 0,
                     !.buffer = <<>>, !.waited = 0 ]
    /\ DriverFrame

\* Ok(ClaudeCliResult { outputs, raw_log })
RunReturn ==
    /\ driver.pc = "next"
    /\ driver.index > Len(driver.commands)
    /\ driver' = [ driver EXCEPT !.pc = "returned", !.result = "Ok" ]
    /\ DriverFrame

----------------------------------------------------------------------------
(* The environment: child process and reader thread *)

\* The child process ends (by itself or after child.kill())
ChildExits ==
    /\ InCommand
    /\ driver.child = "running"
    /\ driver' = [ driver EXCEPT !.child = "exited" ]
    /\ DriverFrame

\* reader.read gives Ok(0) or Err: the thread ends and drops tx
ReaderFinishes ==
    /\ InCommand
    /\ driver.reader = "running"
    /\ driver' = [ driver EXCEPT !.reader = "finished" ]
    /\ DriverFrame

\* The sizes of the chunk that can come out of the channel next
ChunkLens(d) ==
    IF d.channel = "open"
    THEN { n \in 1..MaxChunkLen : d.produced + n <= Len(d.transcript) }
    ELSE {}

\* String::from_utf8_lossy(&buf[..n]): the next n words of the output
NextChunk(d, n) == SubSeq(d.transcript, d.produced + 1, d.produced + n)

----------------------------------------------------------------------------
(* read_until_exit_with_prompts: the read loop *)

TimedOut_Never(d) == FALSE

\* if start.elapsed() >= timeout { break; }
TimedOut(d) == d.elapsed >= Ticks(d.commands[d.index].timeout)

\* The clock of the read loop, which matters up to the timeout only
ElapsedAfter(d, waited) ==
    LET cap == Ticks(d.commands[d.index].timeout) + Ticks(RECV_TIMEOUT_MS)
        now == d.elapsed + waited
    IN  IF now > cap THEN cap ELSE now

\* trust_attempts < 3
CanTrust(d) == d.trust_attempts < MAX_TRUST_ATTEMPTS

ShouldSend_Always(d, now) == TRUE

\* match last_trust_sent { Some(last) => last.elapsed() >= 400 ms, None => true }
ShouldSend(d, now) ==
    \/ d.last_trust_sent = None
    \/ now - d.last_trust_sent[1] >= Ticks(TRUST_GAP_MS)

\* if matches!(child.try_wait(), Ok(Some(_))) { break; } at the loop's end
AfterRecv(d) ==
    IF d.child = "exited" THEN [ d EXCEPT !.pc = "drain", !.drain_elapsed = 0 ]
    ELSE d

ReadTimedOut ==
    /\ driver.pc = "read"
    /\ TimedOut(driver)
    /\ driver' = [ driver EXCEPT !.pc = "drain", !.drain_elapsed = 0 ]
    /\ DriverFrame

\* Ok(chunk): the chunk is appended, the whole buffer is tested for the
\* trust prompt and the line ending is written when it is due; write_ok
\* tells whether send_enter succeeds
RecvChunk(n, waited, write_ok) ==
    /\ driver.pc = "read"
    /\ ~TimedOut(driver)
    /\ n \in ChunkLens(driver)
    /\ LET now      == ElapsedAfter(driver, waited)
           received == [ driver EXCEPT
                           !.buffer = driver.buffer \o NextChunk(driver, n),
                           !.elapsed = now,
                           !.produced = driver.produced + n ]
           sends    == /\ is_workspace_trust_prompt(received.buffer)
                       /\ CanTrust(received)
                       /\ ShouldSend(received, now)
       IN  IF sends
           THEN IF write_ok
                THEN driver' = AfterRecv(
                        [ received EXCEPT
                            !.trust_attempts = received.trust_attempts + 1,
                            !.last_trust_sent = Some(now),
                            !.sent = Append(received.sent, now) ])
                ELSE driver' = ReturnErr(NoLocals(received))
           ELSE /\ write_ok
                /\ driver' = AfterRecv(received)
    /\ DriverFrame

\* Err(RecvTimeoutError::Timeout): nothing came for 200 ms
RecvTimeout ==
    /\ driver.pc = "read"
    /\ ~TimedOut(driver)
    /\ driver.reader = "running"
    /\ driver' = AfterRecv([ driver EXCEPT
                               !.elapsed = ElapsedAfter(driver, Ticks(RECV_TIMEOUT_MS)) ])
    /\ DriverFrame

\* Err(RecvTimeoutError::Disconnected): the thread is gone and the channel empty
RecvDisconnected ==
    /\ driver.pc = "read"
    /\ ~TimedOut(driver)
    /\ driver.reader = "finished"
    /\ driver.channel = "open"
    /\ driver' = [ driver EXCEPT !.pc = "drain", !.drain_elapsed = 0,
                                 !.channel = "disconnected" ]
    /\ DriverFrame

----------------------------------------------------------------------------
(* read_until_exit_with_prompts: the drain loop *)

\* while drain_start.elapsed() < Duration::from_millis(300)
Draining(d) == d.drain_elapsed < Ticks(DRAIN_MS)

\* Ok(chunk) => buffer.push_str(&chunk)
DrainChunk(n, waited) ==
    /\ driver.pc = "drain"
    /\ Draining(driver)
    /\ n \in ChunkLens(driver)
    /\ driver' = [ driver EXCEPT
                     !.buffer = driver.buffer \o NextChunk(driver, n),
                     !.drain_elapsed = driver.drain_elapsed + waited,
                     !.produced = driver.produced + n ]
    /\ DriverFrame

\* Err(Timeout | Disconnected) => break, then Ok(buffer)
DrainEmpty ==
    /\ driver.pc = "drain"
    /\ Draining(driver)
    /\ driver' = NoLocals([ driver EXCEPT !.pc = "kill" ])
    /\ DriverFrame

\* The 300 ms are over, then Ok(buffer)
DrainTimedOut ==
    /\ driver.pc = "drain"
    /\ ~Draining(driver)
    /\ driver' = NoLocals([ driver EXCEPT !.pc = "kill" ])
    /\ DriverFrame

----------------------------------------------------------------------------
(* run_command after the read: kill, reap, join *)

\* drop(writer); let _ = child.kill();
Kill ==
    /\ driver.pc = "kill"
    /\ driver' = [ driver EXCEPT !.pc = "reap", !.waited = 0,
                                 !.unkilled = @ \ { driver.index } ]
    /\ DriverFrame

\* while wait_start.elapsed() < Duration::from_secs(2)
Reaping(d) == d.waited < Ticks(REAP_WAIT_MS)

\* Ok(None) => thread::sleep(Duration::from_millis(50))
ReapSleep ==
    /\ driver.pc = "reap"
    /\ Reaping(driver)
    /\ driver.child = "running"
    /\ driver' = [ driver EXCEPT !.waited = driver.waited + Ticks(SLEEP_MS) ]
    /\ DriverFrame

\* Ok(Some(_)) => break, Err(_) => break, or the 2 s are over
ReapEnd(try_wait_err) ==
    /\ driver.pc = "reap"
    /\ \/ ~Reaping(driver)
       \/ driver.child = "exited"
       \/ try_wait_err
    /\ driver' = [ driver EXCEPT !.pc = "join", !.waited = 0 ]
    /\ DriverFrame

\* while !reader_handle.is_finished() && join_start.elapsed() < 2 s
Joining(d) == d.reader # "finished" /\ d.waited < Ticks(JOIN_WAIT_MS)

JoinSleep ==
    /\ driver.pc = "join"
    /\ Joining(driver)
    /\ driver' = [ driver EXCEPT !.waited = driver.waited + Ticks(SLEEP_MS) ]
    /\ DriverFrame

\* join() when the thread is finished, else it is detached; Ok(output),
\* which run appends to raw_log and pushes to outputs
JoinEnd ==
    /\ driver.pc = "join"
    /\ ~Joining(driver)
    /\ driver' = [ driver EXCEPT
                     !.pc = "next",
                     !.reader_handle = IF driver.reader = "finished"
                                       THEN "joined" ELSE "detached",
                     !.raw_log = driver.raw_log \o driver.buffer,
                     !.outputs = Append(driver.outputs,
                                        CommandOutput(JoinArgs(CurrentCommand.args),
                                                      driver.buffer)),
                     !.index = driver.index + 1,
                     !.waited = 0 ]
    /\ DriverFrame

\* The steps of the thread that called run
DriverStep ==
    \/ \E stage \in SpawnStages : SpawnFails(stage)
    \/ \E transcript \in Transcripts : Spawn(transcript)
    \/ RunReturn
    \/ ReadTimedOut
    \/ \E n \in 1..MaxChunkLen, waited \in RecvWaits, write_ok \in BOOLEAN :
         RecvChunk(n, waited, write_ok)
    \/ RecvTimeout
    \/ RecvDisconnected
    \/ \E n \in 1..MaxChunkLen, waited \in DrainWaits : DrainChunk(n, waited)
    \/ DrainEmpty
    \/ DrainTimedOut
    \/ Kill
    \/ ReapSleep
    \/ \E try_wait_err \in BOOLEAN : ReapEnd(try_wait_err)
    \/ JoinSleep
    \/ JoinEnd

NextCli ==
    \/ \E commands \in Batches : RunStart(commands)
    \/ DriverStep
    \/ ChildExits
    \/ ReaderFinishes

SpecCli == Init /\ [][NextCli]_vars

\* The calling thread keeps running: every step of it is a bounded wait
\* or a call that does not block
SpecCliFair == SpecCli /\ WF_vars(DriverStep)

----------------------------------------------------------------------------
(* Properties of the driver *)

\* C16: within one command invocation the line ending is written at most
\* 3 times, and two consecutive writes are at least 400 ms apart, whatever
\* the chunks in which the trust prompt arrives.
C16_TrustConfirmBounded ==
    InCommand
        => /\ Len(driver.sent) <= 3
           /\ \A i \in 1..(Len(driver.sent) - 1) :
                 driver.sent[i + 1] - driver.sent[i] >= Ticks(400)

\* Three writes, the second as early as it can be
C16_Witness ==
    /\ driver.pc = "read"
    /\ Len(driver.sent) = 3
    /\ driver.sent[2] - driver.sent[1] = Ticks(400)
    /\ is_workspace_trust_prompt(driver.buffer)
    /\ Len(driver.buffer) > 3

\* The order of the phases of one command
PhaseOrder ==
    { <<"read", "drain">>, <<"drain", "kill">>, <<"kill", "reap">>,
      <<"reap", "join">>, <<"join", "next">>, <<"read", "returned">> }

\* C17: every command invocation returns: the read loop, the drain, the
\* kill with its reap wait and the wait for the reader thread come in this
\* order, the drain lasts at most 300 ms and one more receive, each of the
\* two waits at most 2 s, and the invocation is left even when the child
\* never exits and the reader thread never finishes.
C17_CommandReturns ==
    /\ [](InCommand
            => /\ driver.drain_elapsed <= Ticks(300) + Ticks(50)
               /\ driver.waited <= Ticks(2000))
    /\ [][ (InCommand /\ driver'.pc # driver.pc)
              => <<driver.pc, driver'.pc>> \in PhaseOrder ]_vars
    /\ (InCommand ~> ~InCommand)

\* A command has returned although its child was still running and its
\* reader thread had not finished: the thread was detached
C17_Witness ==
    /\ driver.pc = "returned"
    /\ driver.result = "Ok"
    /\ driver.child = "running"
    /\ driver.reader = "running"
    /\ driver.reader_handle = "detached"

IsPrefixOf(s, t) == Len(s) <= Len(t) /\ s = SubSeq(t, 1, Len(s))

ArgsOf(commands) == [ i \in 1..Len(commands) |-> commands[i].args ]

\* C18: run executes the commands in order. When it returns Ok, outputs
\* has one entry per command, in order, and raw_log is the concatenation
\* of the outputs in order. When a command cannot be spawned the batch
\* returns an error, no later command is run and no outputs are returned.
C18_BatchInOrder ==
    /\ Running => IsPrefixOf(driver.spawned, ArgsOf(driver.commands))
    /\ driver.pc = "returned"
         => /\ IsPrefixOf(driver.spawned, ArgsOf(driver.commands))
            /\ driver.result = "Ok"
                 => /\ driver.spawned = ArgsOf(driver.commands)
                    /\ Len(driver.outputs) = Len(driver.commands)
                    /\ \A i \in 1..Len(driver.commands) :
                          driver.outputs[i].command
                              = JoinArgs(driver.commands[i].args)
                    /\ driver.raw_log = RawLog(driver.outputs)
            /\ driver.result = "Err"
                 => /\ Len(driver.spawned) <= driver.index
                    /\ driver.outputs = <<>>
                    /\ driver.raw_log = <<>>

\* A batch of two commands that returned both outputs
C18_Witness ==
    /\ driver.pc = "returned"
    /\ driver.result = "Ok"
    /\ Len(driver.outputs) = 2
    /\ driver.outputs[1].output # <<>>
    /\ driver.outputs[1].output # driver.outputs[2].output

----------------------------------------------------------------------------
(* The classifiers of the CLI's free text, applied to every short output *)

\* The most words of an output handed to a classifier
MaxWords == 3

\* The words of the outputs
OutputWords ==
    { "Successfully", "installed", "uninstalled", "not", "found", "already",
      "Error", "updated", "marketplace", "added", "removed", "latest", "timed",
      "Failed", "could" }

Classifiers ==
    { "marketplace_add", "plugin_install", "plugin_uninstall",
      "marketplace_remove", "plugin_update", "marketplace_update" }

\* Whether the classifier takes the output for a success (done or already so)
ClassifiedSuccess(classifier, output) ==
    CASE classifier = "marketplace_add"    -> parse_marketplace_add_output(output).success
      [] classifier = "plugin_install"     -> parse_plugin_install_output(output).success
      [] classifier = "plugin_uninstall"   -> parse_plugin_uninstall_output(output).success
      [] classifier = "marketplace_remove" -> parse_marketplace_remove_output(output).success
      [] classifier = "plugin_update"      -> parse_plugin_update_output(output) # "failed"
      [] classifier = "marketplace_update" -> parse_marketplace_update_output(output)

TextFrame == UNCHANGED <<store, last, gate, walk, score_in, score_out, driver, rescan>>

PushWord(word) ==
    /\ Len(text_in) < MaxWords
    /\ text_out = None
    /\ text_in' = Append(text_in, word)
    /\ UNCHANGED text_out
    /\ TextFrame

\* The classifier is applied to the output; for an install output the row
\* of a plugin that is not installed is updated as confirm does
Classify(classifier) ==
    /\ text_out = None
    /\ text_out' = Some([ classifier |-> classifier,
                          success    |-> ClassifiedSuccess(classifier, text_in),
                          installed  |->
                            IF classifier = "plugin_install"
                            THEN ConfirmedRecord(PluginNew(NameA, RepoR1, MarketM),
                                                 parse_plugin_install_output(text_in),
                                                 text_in).installed
                            ELSE FALSE ])
    /\ UNCHANGED text_in
    /\ TextFrame

NextClassify ==
    \/ \E word \in OutputWords : PushWord(word)
    \/ \E classifier \in Classifiers : Classify(classifier)

SpecClassify == Init /\ [][NextClassify]_vars

\* The success / already vocabulary of each classifier: every word or
\* phrase whose presence its success or already test asks for
Vocabulary(classifier) ==
    CASE classifier = "marketplace_add" ->
           { <<"already">>, <<"added">> }
      [] classifier = "plugin_install" ->
           { <<"installed">>, <<"already", "exists">>, <<"installation", "complete">>,
             <<"install", "success">> }
      [] classifier = "plugin_uninstall" ->
           { <<"not", "installed">>, <<"not", "found">>, <<"doesn't", "exist">>,
             <<"uninstalled">>, <<"uninstall", "success">>, <<"removed">> }
      [] classifier = "marketplace_remove" ->
           { <<"not", "found">>, <<"doesn't", "exist">>, <<"removed">>,
             <<"uninstalled">> }
      [] classifier = "plugin_update" ->
           { <<"already">>, <<"updated">> }
      [] classifier = "marketplace_update" ->
           { <<"updated">>, <<"already", "up", "to", "date">> }

Unrecognized(classifier, output) ==
    \A phrase \in Vocabulary(classifier) : ~Contains(to_lowercase(output), phrase)

Classified == text_out # None /\ "classifier" \in DOMAIN text_out[1]

\* The four classifiers of free-text outcomes with a failure test
OutcomeClassifiers ==
    { "marketplace_add", "plugin_install", "plugin_uninstall", "marketplace_remove" }

FailureVocabulary ==
    { <<"error">>, <<"failed">>, <<"unable", "to">>, <<"could", "not">> }

SaysFailure(output) ==
    \E phrase \in FailureVocabulary : Contains(to_lowercase(output), phrase)

Says(output, phrase) == Contains(to_lowercase(output), phrase)

\* The vocabulary each classifier tests before its failure test
SaysAlready(classifier, output) ==
    CASE classifier = "marketplace_add" ->
           /\ Says(output, <<"already">>)
           /\ \E word \in { "marketplace", "exists", "added", "installed" } :
                 Says(output, << word >>)
      [] classifier = "plugin_uninstall" ->
           \/ Says(output, <<"not", "installed">>)
           \/ Says(output, <<"not", "found">>)
           \/ Says(output, <<"doesn't", "exist">>)
      [] classifier = "marketplace_remove" ->
           \/ Says(output, <<"not", "found">>)
           \/ Says(output, <<"doesn't", "exist">>)
      [] OTHER -> FALSE

\* C29 as stated: with each of the four classifiers, an output that holds
\* failure vocabulary is classified as a failure, whatever else it holds.
C29_FailureVocabularyWins ==
    (Classified /\ text_out[1].classifier \in OutcomeClassifiers /\ SaysFailure(text_in)) =>
        ~text_out[1].success

\* C29, amended: an output that holds failure vocabulary is classified as
\* a failure by the install classifier always, and by the other three
\* unless it also holds the vocabulary they test first ("already ..." for
\* marketplace add, "not installed" / "not found" / "doesn't exist" for
\* uninstall, "not found" / "doesn't exist" for marketplace remove), in
\* which case it is classified as a success.
C29_FailureVocabularyUnlessAlready ==
    (Classified /\ text_out[1].classifier \in OutcomeClassifiers /\ SaysFailure(text_in)) =>
        (text_out[1].success <=> SaysAlready(text_out[1].classifier, text_in))

\* "Error installed": the install classifier sees success vocabulary next
\* to failure vocabulary and answers failure
C29_Witness ==
    /\ Classified
    /\ text_out[1].classifier = "plugin_install"
    /\ text_in = <<"Error", "installed">>
    /\ ~text_out[1].success

\* C19: each of the six classifiers takes an output with none of its
\* success / already vocabulary, the empty output included, for a failure,
\* and an install output taken for a failure does not mark the plugin
\* installed.
C19_FailClosed ==
    Classified
        => /\ Unrecognized(text_out[1].classifier, text_in) => ~text_out[1].success
           /\ (text_out[1].classifier = "plugin_install" /\ ~text_out[1].success)
                 => ~text_out[1].installed

\* An install output without an error word and without the vocabulary
C19_Witness ==
    /\ Classified
    /\ text_out[1].classifier = "plugin_install"
    /\ text_in = <<"timed", "latest">>
    /\ ~text_out[1].success
    /\ ~text_out[1].installed

----------------------------------------------------------------------------
(* services/plugin_manager.rs: extraction of a JSON value from CLI output. *)
(* A text is a sequence of tokens separated by white space: the brackets,  *)
(* a key with its colon ("installed:"), a whole member with a string value *)
(* ("id=p" for "id":"p"), a word of a prompt or log line, and the          *)
(* characters of an escape sequence.                                       *)

OpenTokens == { "{", "[" }

\* Keys that are followed by a value
KeyTokens == { "installed:", "available:", "installedPlugins:", "availablePlugins:" }

\* Members with a string value
MemberTokens == { "id=p", "event=x" }

\* ('@'..='~').contains(&c): the tokens of one character that end a CSI sequence
FinalByteTokens == { "m", "{", "}", "[", "]", "\\" }

SkipCsi_KeepsFinal(input, i) ==
    IF \E k \in i..Len(input) : input[k] \in FinalByteTokens
    THEN CHOOSE k \in i..Len(input) :
            /\ input[k] \in FinalByteTokens
            /\ \A j \in i..(k - 1) : input[j] \notin FinalByteTokens
    ELSE Len(input) + 1

RECURSIVE SkipCsi(_, _)
\* The index after the CSI sequence whose parameters start at i
SkipCsi(input, i) ==
    IF i > Len(input) THEN i
    ELSE IF input[i] \in FinalByteTokens THEN i + 1
    ELSE SkipCsi(input, i + 1)

RECURSIVE SkipOsc(_, _)
\* The index after the OSC sequence: BEL or ESC \ ends it
SkipOsc(input, i) ==
    IF i > Len(input) THEN i
    ELSE IF input[i] = "BEL" THEN i + 1
    ELSE IF input[i] = "ESC" /\ i + 1 <= Len(input) /\ input[i + 1] = "\\" THEN i + 2
    ELSE SkipOsc(input, i + 1)

RECURSIVE StripFrom(_, _)
StripFrom(input, i) ==
    IF i > Len(input) THEN <<>>
    ELSE IF input[i] = "ESC"
         THEN IF i + 1 <= Len(input) /\ input[i + 1] = "["
              THEN StripFrom(input, SkipCsi(input, i + 2))
              ELSE IF i + 1 <= Len(input) /\ input[i + 1] = "]"
              THEN StripFrom(input, SkipOsc(input, i + 2))
              ELSE StripFrom(input, i + 2)
         ELSE <<input[i]>> \o StripFrom(input, i + 1)

\* fn strip_terminal_escapes
strip_terminal_escapes(input) == StripFrom(input, 1)

RECURSIVE ParseEnd(_, _)
\* serde_json's stream.next() on the slice that starts at i, then
\* stream.byte_offset(): the index after the value, 0 when there is no
\* complete value. Values are separated by commas in JSON, so an array or
\* an object of tokens holds one value or member at most.
ParseEnd(text, i) ==
    LET n  == Len(text)
        at(k) == IF k <= n THEN text[k] ELSE "EOF"
    IN  IF at(i) = "["
        THEN IF at(i + 1) = "]" THEN i + 2
             ELSE LET e == ParseEnd(text, i + 1)
                  IN  IF e # 0 /\ at(e) = "]" THEN e + 1 ELSE 0
        ELSE IF at(i) = "{"
        THEN IF at(i + 1) = "}" THEN i + 2
             ELSE IF at(i + 1) \in MemberTokens
             THEN (IF at(i + 2) = "}" THEN i + 3 ELSE 0)
             ELSE IF at(i + 1) \in KeyTokens
             THEN LET e == ParseEnd(text, i + 2)
                  IN  IF e # 0 /\ at(e) = "}" THEN e + 1 ELSE 0
             ELSE 0
        ELSE 0

\* fn json_has_plugin_list_fields: an object with one of the four keys
json_has_plugin_list_fields(value) ==
    /\ value[1] = "{"
    /\ Len(value) >= 2
    /\ value[2] \in KeyTokens

\* serde_json::from_str::<Vec<ClaudeInstalledPluginEntry>>(payload): an array
\* of objects that have an "id" string
IsInstalledEntries(value) ==
    \/ value = <<"[", "]">>
    \/ value = <<"[", "{", "id=p", "}", "]">>

Shapes == { "plugin_list_fields", "installed_entries" }

\* Whether the value is taken: predicate(&value), or from_str::<T> succeeds
Fits(shape, value) ==
    IF shape = "plugin_list_fields" THEN json_has_plugin_list_fields(value)
    ELSE IsInstalledEntries(value)

\* bytes[pos..].iter().position(|b| *b == b'{' || *b == b'['), 0 when none
NextOpen(text, pos) ==
    LET opens == { k \in pos..Len(text) : text[k] \in OpenTokens }
    IN  IF opens = {} THEN 0 ELSE CHOOSE k \in opens : \A j \in opens : k <= j

AfterSkipped_NextToken(start, end) == start + 1

\* pos = start + end: a complete value that is not taken is passed over whole
AfterSkipped(start, end) == end

RECURSIVE ScanFrom(_, _, _)
\* The loop of parse_first_json_value and of find_json_value_with_predicate
ScanFrom(text, pos, shape) ==
    LET start == NextOpen(text, pos)
    IN  IF pos > Len(text) \/ start = 0 THEN None
        ELSE LET end == ParseEnd(text, start)
             IN  IF end = 0 THEN ScanFrom(text, start + 1, shape)
                 ELSE IF Fits(shape, SubSeq(text, start, end - 1))
                 THEN Some(SubSeq(text, start, end - 1))
                 ELSE ScanFrom(text, AfterSkipped(start, end), shape)

\* find_json_value_with_predicate(&cleaned, json_has_plugin_list_fields)
find_json_value_with_predicate(output) == ScanFrom(output, 1, "plugin_list_fields")

\* parse_first_json_value::<Vec<ClaudeInstalledPluginEntry>>(&cleaned)
parse_first_json_value(output) == ScanFrom(output, 1, "installed_entries")

\* serde_json::from_str::<T>(text): the whole text is one value that fits
from_str(shape, text) ==
    IF ParseEnd(text, 1) = Len(text) + 1 /\ Fits(shape, text)
    THEN Some(text) ELSE None

\* fn extract_json_payload: from the first opening to the last closing bracket
extract_json_payload(output) ==
    LET closes == { k \in 1..Len(output) : output[k] \in { "}", "]" } }
        start  == NextOpen(output, 1)
        end    == CHOOSE k \in closes : \A j \in closes : j <= k
    IN  IF start = 0 \/ closes = {} THEN None
        ELSE IF end < start THEN None
        ELSE Some(SubSeq(output, start, end))

\* A parse that answers an empty list where nothing could be read
parse_json_output_Lenient(output) ==
    LET shape   == "installed_entries"
        cleaned == strip_terminal_escapes(output)
        direct  == from_str(shape, cleaned)
        first   == parse_first_json_value(cleaned)
    IN  IF direct # None THEN direct
        ELSE IF first # None THEN first
        ELSE Some(<<"[", "]">>)

\* fn parse_json_output::<Vec<ClaudeInstalledPluginEntry>>: the whole text,
\* then the first value that fits, then the span between the outer brackets
parse_json_output(output) ==
    LET shape   == "installed_entries"
        cleaned == strip_terminal_escapes(output)
        direct  == from_str(shape, cleaned)
        first   == parse_first_json_value(cleaned)
        span    == extract_json_payload(cleaned)
        payload == IF span = None THEN cleaned ELSE span[1]
    IN  IF direct # None THEN direct
        ELSE IF first # None THEN first
        ELSE from_str(shape, payload)

\* The extraction as its callers run it: on the escape-stripped output
ExtractJson(shape, output) ==
    IF shape = "plugin_list_fields"
    THEN find_json_value_with_predicate(strip_terminal_escapes(output))
    ELSE parse_json_output(output)

----------------------------------------------------------------------------
(* Inputs of the extraction: an output is put together from pieces *)

\* The most pieces of an output
MaxPieces == 3

WordPiece == <<"log">>

\* [INFO]
LogTagPiece == <<"[", "log", "]">>

EscapePiece == <<"ESC", "[", "m">>

\* {"event":"x"}
ProgressPiece == <<"{", "event=x", "}">>

EmptyArrayPiece == <<"[", "]">>

\* {"installed": []}
PluginListPiece == <<"{", "installed:", "[", "]", "}">>

\* [{"id":"p"}]
EntriesPiece == <<"[", "{", "id=p", "}", "]">>

OutputPieces ==
    { WordPiece, LogTagPiece, EscapePiece, ProgressPiece, EmptyArrayPiece,
      PluginListPiece, EntriesPiece, <<"[">>, <<"]">>, <<"{">> }

PushPiece(piece) ==
    /\ Len(text_in) < MaxPieces
    /\ text_out = None
    /\ text_in' = Append(text_in, piece)
    /\ UNCHANGED text_out
    /\ TextFrame

Extract(shape) ==
    /\ text_out = None
    /\ text_out' = Some([ shape |-> shape,
                          value |-> ExtractJson(shape, Flatten(text_in)) ])
    /\ UNCHANGED text_in
    /\ TextFrame

NextJson ==
    \/ \E piece \in OutputPieces : PushPiece(piece)
    \/ \E shape \in Shapes : Extract(shape)

SpecJson == Init /\ [][NextJson]_vars

----------------------------------------------------------------------------
(* The stripping on its own, over texts of single characters *)

\* The most characters of a text
MaxEscLen == 5

\* ESC, the two introducers, a final byte, BEL, the backslash of ST, and a
\* parameter character
EscChars == { "ESC", "[", "]", "m", "BEL", "\\", "1" }

PushEscChar(c) ==
    /\ Len(text_in) < MaxEscLen
    /\ text_out = None
    /\ text_in' = Append(text_in, c)
    /\ UNCHANGED text_out
    /\ TextFrame

Strip ==
    /\ text_out = None
    /\ text_out' = Some([ stripped |-> strip_terminal_escapes(text_in) ])
    /\ UNCHANGED text_in
    /\ TextFrame

NextStrip ==
    \/ \E c \in EscChars : PushEscChar(c)
    \/ Strip

SpecStrip == Init /\ [][NextStrip]_vars

Stripped == text_out # None /\ "stripped" \in DOMAIN text_out[1]

\* The least index of the set, or beyond when the set is empty
FirstOf(indexes, beyond) ==
    IF indexes = {} THEN beyond
    ELSE CHOOSE k \in indexes : \A j \in indexes : k <= j

\* The index of the last character of the escape sequence that starts the
\* text: a CSI sequence ends with its first final byte, an OSC sequence
\* with its first BEL or ESC \, both with the text when nothing ends them;
\* any other sequence is ESC and the character after it
EscapeEnd(text) ==
    LET n == Len(text)
    IN  IF n >= 2 /\ text[2] = "["
        THEN FirstOf({ k \in 3..n : text[k] \in FinalByteTokens }, n)
        ELSE IF n >= 2 /\ text[2] = "]"
        THEN FirstOf({ k \in 3..n : text[k] = "BEL" }
                       \cup { k + 1 : k \in { j \in 3..(n - 1) :
                                                 text[j] = "ESC" /\ text[j + 1] = "\\" } },
                     n)
        ELSE IF n >= 2 THEN 2 ELSE 1

\* C30: strip_terminal_escapes removes the CSI, OSC or other escape
\* sequence a text starts with and goes on behind it, keeps a character
\* that starts no escape sequence and goes on behind it; its output holds
\* no ESC, and stripping the output again changes nothing.
C30_StripRemovesEscapes ==
    Stripped =>
        LET out == text_out[1].stripped
            rest(k) == SubSeq(text_in, k + 1, Len(text_in))
        IN  /\ "ESC" \notin Range(out)
            /\ strip_terminal_escapes(out) = out
            /\ text_in = <<>> => out = <<>>
            /\ (text_in # <<>> /\ Head(text_in) # "ESC") =>
                  out = << Head(text_in) >> \o strip_terminal_escapes(rest(1))
            /\ (text_in # <<>> /\ Head(text_in) = "ESC") =>
                  out = strip_terminal_escapes(rest(EscapeEnd(text_in)))

\* A CSI sequence with a parameter and, behind it, a character that is
\* kept: only the character is left
C30_Witness ==
    /\ Stripped
    /\ text_in = <<"ESC", "[", "1", "m", "1">>
    /\ text_out[1].stripped = <<"1">>

----------------------------------------------------------------------------
(* Properties of the extraction *)

Extracted == text_out # None /\ "shape" \in DOMAIN text_out[1]

\* The escape-stripped text, written down without the stripping function
Cleaned == Flatten(SelectSeq(text_in, LAMBDA piece : piece # EscapePiece))

IsComplete(text, p) == text[p] \in OpenTokens /\ ParseEnd(text, p) # 0

ValueAt(text, p) == SubSeq(text, p, ParseEnd(text, p) - 1)

\* A complete value that fits starts at p
FitsAt(shape, text, p) == IsComplete(text, p) /\ Fits(shape, ValueAt(text, p))

RECURSIVE Passed(_, _, _)
\* p lies inside a complete value that did not fit and was passed over whole
Passed(shape, text, p) ==
    \E q \in 1..(p - 1) :
        /\ IsComplete(text, q)
        /\ ~Fits(shape, ValueAt(text, q))
        /\ p < ParseEnd(text, q)
        /\ ~Passed(shape, text, q)

\* The places the search can return a value from
Found(shape, text) ==
    { p \in 1..Len(text) : FitsAt(shape, text, p) /\ ~Passed(shape, text, p) }

\* Prompts, log lines, escape sequences and complete values that do not fit
\* the shape; a lone bracket is not among them
Noise(shape) ==
    { piece \in { WordPiece, LogTagPiece, EscapePiece, ProgressPiece,
                  EmptyArrayPiece, PluginListPiece, EntriesPiece } :
        piece = EscapePiece \/ ~FitsAt(shape, piece, 1) }

\* One piece is a payload of the shape, the others are noise
PayloadAmongNoise(shape, pieces, k) ==
    /\ k \in 1..Len(pieces)
    /\ pieces[k] \in { PluginListPiece, EntriesPiece }
    /\ Fits(shape, pieces[k])
    /\ \A j \in (1..Len(pieces)) \ { k } : pieces[j] \in Noise(shape)

\* C20: the extraction returns the first complete JSON value of the
\* escape-stripped text that starts at a '{' or '[' and fits the shape, a
\* complete value that does not fit being passed over whole; prompts, log
\* lines, escape sequences and complete values of other shapes before or
\* after a payload do not change the result.
C20_FirstFittingValue ==
    Extracted
        => LET shape == text_out[1].shape
               found == Found(shape, Cleaned)
           IN  /\ found = {} => text_out[1].value = None
               /\ found # {}
                    => text_out[1].value
                          = Some(ValueAt(Cleaned,
                                   CHOOSE p \in found : \A q \in found : p <= q))
               /\ \A k \in 1..Len(text_in) :
                     PayloadAmongNoise(shape, text_in, k)
                        => text_out[1].value = Some(text_in[k])

\* An unrelated object before the payload and an escape sequence after it
C20_Witness ==
    /\ Extracted
    /\ text_out[1].shape = "plugin_list_fields"
    /\ text_in = << ProgressPiece, PluginListPiece, LogTagPiece >>
    /\ text_out[1].value = Some(PluginListPiece)

----------------------------------------------------------------------------
(* security/scanner.rs: the decoding of a file's bytes.                    *)
(* A text is a sequence of code points, a buffer a sequence of bytes.      *)

REPLACEMENT_CHARACTER == 65533

\* The sample window of detect_utf16_encoding, in bytes
SAMPLE_WINDOW == 4096

\* char::encode_utf16: one unit, or a surrogate pair above the BMP
Utf16Units(ch) ==
    IF ch < 65536 THEN << ch >>
    ELSE << 55296 + ((ch - 65536) \div 1024), 56320 + ((ch - 65536) % 1024) >>

\* str::encode_utf16
encode_utf16(text) == Flatten([ i \in 1..Len(text) |-> Utf16Units(text[i]) ])

\* u16::to_le_bytes
to_le_bytes(unit) == << unit % 256, unit \div 256 >>

\* char::encode_utf8
Utf8Bytes(ch) ==
    IF ch < 128 THEN << ch >>
    ELSE IF ch < 2048 THEN << 192 + (ch \div 64), 128 + (ch % 64) >>
    ELSE IF ch < 65536
         THEN << 224 + (ch \div 4096), 128 + ((ch \div 64) % 64), 128 + (ch % 64) >>
         ELSE << 240 + (ch \div 262144), 128 + ((ch \div 4096) % 64),
                 128 + ((ch \div 64) % 64), 128 + (ch % 64) >>

BYTE_ORDER_MARK_LE == << 255, 254 >>

\* The bytes of a file that stores the text
StoredBytes(storage, text) ==
    LET units == encode_utf16(text)
        le    == Flatten([ i \in 1..Len(units) |-> to_le_bytes(units[i]) ])
    IN  CASE storage = "utf-16le"     -> le
          [] storage = "utf-16le-bom" -> BYTE_ORDER_MARK_LE \o le
          [] storage = "utf-8"        -> Flatten([ i \in 1..Len(text) |-> Utf8Bytes(text[i]) ])

\* The ratios are compared as cross products: with at most SAMPLE_WINDOW
\* bytes the f32 quotients order as the exact ones do
detect_utf16_encoding(buf) ==
    IF Len(buf) < 2 THEN None
    ELSE IF buf[1] = 255 /\ buf[2] = 254 THEN Some(<< "LittleEndian", 2 >>)
    ELSE IF buf[1] = 254 /\ buf[2] = 255 THEN Some(<< "BigEndian", 2 >>)
    ELSE LET sample_len  == Minimum(Len(buf), SAMPLE_WINDOW)
             evens       == { i \in 0..(sample_len - 1) : i % 2 = 0 }
             odds        == { i \in 0..(sample_len - 1) : i % 2 = 1 }
             even        == Cardinality(evens)
             odd         == Cardinality(odds)
             even_zeros  == Cardinality({ i \in evens : buf[i + 1] = 0 })
             odd_zeros   == Cardinality({ i \in odds : buf[i + 1] = 0 })
             total_zeros == even_zeros + odd_zeros
         IN  IF sample_len < 4 THEN None
             ELSE IF 10 * total_zeros < sample_len THEN None
             ELSE IF 10 * odd_zeros > 6 * odd /\ 10 * even_zeros < 2 * even
                  THEN Some(<< "LittleEndian", 0 >>)
             ELSE IF 10 * even_zeros > 6 * even /\ 10 * odd_zeros < 2 * odd
                  THEN Some(<< "BigEndian", 0 >>)
             ELSE None

IsHighSurrogate(unit) == unit \in 55296..56319

IsLowSurrogate(unit) == unit \in 56320..57343

\* String::from_utf16_lossy: a surrogate without its partner is replaced
RECURSIVE from_utf16_lossy(_)
from_utf16_lossy(units) ==
    IF units = <<>> THEN <<>>
    ELSE IF IsHighSurrogate(units[1]) /\ Len(units) >= 2 /\ IsLowSurrogate(units[2])
         THEN << 65536 + (units[1] - 55296) * 1024 + (units[2] - 56320) >>
                 \o from_utf16_lossy(SubSeq(units, 3, Len(units)))
    ELSE IF IsHighSurrogate(units[1]) \/ IsLowSurrogate(units[1])
         THEN << REPLACEMENT_CHARACTER >> \o from_utf16_lossy(Tail(units))
    ELSE << units[1] >> \o from_utf16_lossy(Tail(units))

\* slice.chunks_exact(2), each chunk read in the given byte order
ChunkUnits(slice, encoding) ==
    [ k \in 1..(Len(slice) \div 2) |->
        IF encoding = "LittleEndian"
        THEN slice[2 * k - 1] + 256 * slice[2 * k]
        ELSE 256 * slice[2 * k - 1] + slice[2 * k] ]

decode_utf16_KeepsMark(buf, encoding, offset) ==
    from_utf16_lossy(ChunkUnits(buf, encoding))

decode_utf16(buf, encoding, offset) ==
    LET slice == IF offset <= Len(buf) THEN SubSeq(buf, offset + 1, Len(buf)) ELSE <<>>
    IN  from_utf16_lossy(ChunkUnits(slice, encoding))

\* char::is_control: the category Cc
IsControl(ch) == ch \in 0..31 \/ ch \in 127..159

\* The sample of 8192 characters is never exceeded by the texts at hand
is_likely_text(sample) ==
    LET total       == Len(sample)
        replacement == Cardinality({ i \in 1..total : sample[i] = REPLACEMENT_CHARACTER })
        control     == Cardinality({ i \in 1..total :
                                       IsControl(sample[i]) /\ sample[i] \notin { 10, 13, 9 } })
    IN  /\ total # 0
        /\ 100 * replacement < 5 * total
        /\ 100 * control < 2 * total

IsContinuation(buf, i) == i <= Len(buf) /\ buf[i] \in 128..191

\* The bounds of the byte after the lead byte (no overlong form, no
\* surrogate, nothing above U+10FFFF)
SecondByteRange(lead) ==
    CASE lead = 224 -> 160..191
      [] lead = 237 -> 128..159
      [] lead = 240 -> 144..191
      [] lead = 244 -> 128..143
      [] OTHER      -> 128..191

\* The number of bytes the sequence with this lead byte has, 0 for a byte
\* that leads nothing
SequenceLength(lead) ==
    IF lead < 128 THEN 1
    ELSE IF lead \in 194..223 THEN 2
    ELSE IF lead \in 224..239 THEN 3
    ELSE IF lead \in 240..244 THEN 4
    ELSE 0

\* String::from_utf8_lossy: a well-formed sequence gives its character, a
\* maximal ill-formed part gives one replacement character
RECURSIVE from_utf8_lossy(_)
from_utf8_lossy(buf) ==
    IF buf = <<>> THEN <<>>
    ELSE LET lead == buf[1]
             need == SequenceLength(lead)
             second_ok == Len(buf) >= 2 /\ buf[2] \in SecondByteRange(lead)
             \* the well-formed bytes after the lead byte
             good == IF need <= 1 \/ ~second_ok THEN 0
                     ELSE IF need = 2 \/ ~IsContinuation(buf, 3) THEN 1
                     ELSE IF need = 3 \/ ~IsContinuation(buf, 4) THEN 2
                     ELSE 3
             rest(n) == from_utf8_lossy(SubSeq(buf, n + 1, Len(buf)))
         IN  IF need = 1 THEN << lead >> \o rest(1)
             ELSE IF need = 0 THEN << REPLACEMENT_CHARACTER >> \o rest(1)
             ELSE IF good + 1 < need THEN << REPLACEMENT_CHARACTER >> \o rest(good + 1)
             ELSE IF need = 2
                  THEN << (lead - 192) * 64 + (buf[2] - 128) >> \o rest(2)
             ELSE IF need = 3
                  THEN << (lead - 224) * 4096 + (buf[2] - 128) * 64 + (buf[3] - 128) >>
                          \o rest(3)
             ELSE << (lead - 240) * 262144 + (buf[2] - 128) * 4096
                        + (buf[3] - 128) * 64 + (buf[4] - 128) >> \o rest(4)

\* What scan_directory_with_options makes of a buffer: the text it goes on
\* to match, or nothing when the file is skipped as binary
Utf16Content_Ungated(buf) ==
    LET detected == detect_utf16_encoding(buf)
    IN  IF detected # None
        THEN Some(decode_utf16(buf, detected[1][1], detected[1][2]))
        ELSE None

\* The UTF-16 text the buffer is taken for, if any: a candidate found by
\* its byte order mark (offset > 0) is taken as it decodes, one found by
\* the statistics only when it decodes to likely text
Utf16Content(buf) ==
    LET detected == detect_utf16_encoding(buf)
        decoded  == decode_utf16(buf, detected[1][1], detected[1][2])
    IN  IF detected # None /\ (detected[1][2] > 0 \/ is_likely_text(decoded))
        THEN Some(decoded) ELSE None

FileContent(buf) ==
    LET content == Utf16Content(buf)
    IN  IF content = None /\ 0 \in Range(buf) THEN None
        ELSE IF content # None THEN content
        ELSE Some(from_utf8_lossy(buf))

----------------------------------------------------------------------------
(* Inputs of the decoder *)

\* The longest text, in characters
MaxChars == 4

\* a, line feed, escape, A with macron (low byte zero), a CJK ideograph
\* (neither byte zero), the byte order mark as a character, an emoji
\* outside the BMP
TextChars == { 97, 10, 27, 256, 20013, 65279, 128512 }

Storages == { "utf-16le", "utf-16le-bom", "utf-8" }

----------------------------------------------------------------------------
(* The decoder specification: a text is built up character by character,   *)
(* stored in one of the encodings and read back as the scan reads a file.  *)

PushChar(ch) ==
    /\ Len(text_in) < MaxChars
    /\ text_out = None
    /\ text_in' = Append(text_in, ch)
    /\ UNCHANGED text_out
    /\ TextFrame

ReadStored(storage) ==
    /\ text_out = None
    /\ LET buf == StoredBytes(storage, text_in)
       IN  text_out' = Some([ storage  |-> storage,
                              detected |-> detect_utf16_encoding(buf),
                              content  |-> FileContent(buf) ])
    /\ UNCHANGED text_in
    /\ TextFrame

NextDecode ==
    \/ \E ch \in TextChars : PushChar(ch)
    \/ \E storage \in Storages : ReadStored(storage)

SpecDecode == Init /\ [][NextDecode]_vars

----------------------------------------------------------------------------
(* Properties of the decoder *)

WasRead(storage) == text_out # None /\ text_out[1].storage = storage

ClassifiedLittleEndian ==
    text_out[1].detected # None /\ text_out[1].detected[1][1] = "LittleEndian"

RoundTrips == ClassifiedLittleEndian /\ text_out[1].content = Some(text_in)

HighZero(text) == { i \in 1..Len(encode_utf16(text)) : encode_utf16(text)[i] \div 256 = 0 }

LowZero(text) == { i \in 1..Len(encode_utf16(text)) : encode_utf16(text)[i] % 256 = 0 }

\* Mostly Latin-1 text of two units or more that does not begin with a
\* byte order mark and holds next to no control characters
PlainEnough(text) ==
    LET units == Len(encode_utf16(text))
    IN  /\ units >= 2
        /\ text[1] # 65279
        /\ 10 * Cardinality(HighZero(text)) > 6 * units
        /\ 10 * Cardinality(LowZero(text)) < 2 * units
        /\ 100 * Cardinality({ i \in 1..Len(text) :
                                  IsControl(text[i]) /\ text[i] \notin { 9, 10, 13 } })
                < 2 * Len(text)

ReadBuf == StoredBytes(text_out[1].storage, text_in)

Candidate == text_out[1].detected # None

CandidateOffset == text_out[1].detected[1][2]

CandidateText == decode_utf16(ReadBuf, text_out[1].detected[1][1], CandidateOffset)

ScannedAsUtf16 == Candidate /\ text_out[1].content = Some(CandidateText)

\* C32 as stated: a UTF-16 candidate, found by its byte order mark or by
\* the null-byte statistics, is scanned as UTF-16 only if its decoded form
\* is likely text.
C32_Utf16NeedsLikelyText ==
    (text_out # None /\ ScannedAsUtf16) => is_likely_text(CandidateText)

\* C32 amended: a candidate found by the null-byte statistics is scanned
\* as UTF-16 exactly when its decoded form is likely text, and is skipped
\* as binary otherwise; a candidate found by its byte order mark is
\* scanned as UTF-16 whatever it decodes to.
C32_Utf16NeedsLikelyTextWithoutMark ==
    (text_out # None /\ Candidate) =>
        IF CandidateOffset = 0
        THEN /\ ScannedAsUtf16 <=> is_likely_text(CandidateText)
             /\ ~is_likely_text(CandidateText) => text_out[1].content = None
        ELSE ScannedAsUtf16

\* A file with a byte order mark whose text is half escape characters,
\* scanned as UTF-16 all the same
C32_Witness ==
    /\ WasRead("utf-16le-bom")
    /\ Candidate
    /\ CandidateOffset = 2
    /\ text_in = << 27, 97, 27, 97 >>
    /\ ~is_likely_text(CandidateText)
    /\ text_out[1].content = Some(text_in)

\* A file without a mark that the statistics take for UTF-16 and whose
\* text is not likely text: skipped as binary
Utf16CandidateRefused ==
    /\ WasRead("utf-16le")
    /\ Candidate
    /\ CandidateOffset = 0
    /\ ~is_likely_text(CandidateText)
    /\ text_out[1].content = None

----------------------------------------------------------------------------
(* Inputs of merge_reports on its own: reports as                          *)
(* scan_directory_with_options returns them (a skipped file makes the      *)
(* report partial, a blocked report carries a hard-trigger message and its *)
(* issue).                                                                 *)

\* The most plugins of one marketplace
MaxReports == 2

MergeScores == { 100, 40, 0 }

\* How complete a scan was: complete, with a file cut short, with a file
\* skipped, or cut by the file cap
Completeness == { "complete", "truncated", "skipped", "capped" }

MergeReports ==
    { ReportOf(score, blocked, completeness) :
        score \in MergeScores, blocked \in BOOLEAN, completeness \in Completeness }

\* The plugins of the marketplace, in manifest order
MergePlugins ==
    << PluginNew(NameA, RepoR1, MarketM), PluginNew(NameB, RepoR1, MarketM),
       PluginNew(<<"c">>, RepoR1, MarketM), PluginNew(<<"d">>, RepoR1, MarketM) >>

----------------------------------------------------------------------------
(* The merge specification: the pairs of a prepare are collected one by    *)
(* one and merged.                                                         *)

PushReport(report) ==
    /\ Len(text_in) < MaxReports
    /\ text_out = None
    /\ text_in' = Append(text_in, << MergePlugins[Len(text_in) + 1], report >>)
    /\ UNCHANGED text_out
    /\ TextFrame

Merge ==
    /\ text_out = None
    /\ text_out' = Some(merge_reports(text_in, MarketM))
    /\ UNCHANGED text_in
    /\ TextFrame

NextMerge ==
    \/ \E report \in MergeReports : PushReport(report)
    \/ Merge

SpecMerge == Init /\ [][NextMerge]_vars

----------------------------------------------------------------------------
(* Properties of the merge *)

Merged == text_out # None

MergedReport == text_out[1]

Reorderings(n) ==
    { f \in [ 1..n -> 1..n ] : \A i, j \in 1..n : f[i] = f[j] => i = j }

Permuted(s, f) == [ i \in 1..Len(s) |-> s[f[i]] ]

\* C25: the merged report's score is the least of the constituent scores
\* (100 for no report at all), blocked is the OR of the blocked flags and
\* partial_scan the OR of the partial_scan flags, and no reordering of the
\* pairs changes these three fields.
C25_MergeReduces ==
    Merged =>
        LET all == 1..Len(text_in)
        IN  /\ \A i \in all : MergedReport.score <= text_in[i][2].score
            /\ \/ \E i \in all : MergedReport.score = text_in[i][2].score
               \/ all = {} /\ MergedReport.score = 100
            /\ MergedReport.blocked <=> \E i \in all : text_in[i][2].blocked
            /\ MergedReport.partial_scan <=> \E i \in all : text_in[i][2].partial_scan
            /\ \A f \in Reorderings(Len(text_in)) :
                  LET other == merge_reports(Permuted(text_in, f), MarketM)
                  IN  /\ other.score = MergedReport.score
                      /\ other.blocked = MergedReport.blocked
                      /\ other.partial_scan = MergedReport.partial_scan

\* Two reports: the first blocked and complete, the second clean and
\* partial with the lower score
C25_Witness ==
    /\ Merged
    /\ Len(text_in) = 2
    /\ text_in[1][2].blocked /\ ~text_in[1][2].partial_scan
    /\ ~text_in[2][2].blocked /\ text_in[2][2].partial_scan
    /\ text_in[2][2].score < text_in[1][2].score
    /\ MergedReport.score = text_in[2][2].score
    /\ MergedReport.blocked
    /\ MergedReport.partial_scan

\* ---------------------------------------------------------------------
\* The bounds of one directory scan
\* ---------------------------------------------------------------------

\* The files the walk opened: those it matched and those it gave up on
\* after File::open or after reading them
OpenedFiles == Range(ScanReport.scanned_files) \cup Range(ScanReport.skipped_files)

\* C31: in one scan_directory_with_options call at most MAX_FILES files
\* are opened and read, whatever the tree holds; text, binary and
\* unreadable files all count.
C31_AtMostMaxFilesOpened ==
    DirectoryScanDone => Cardinality(OpenedFiles) <= MAX_FILES

\* The regular files the loop went on to open: yielded by the walk ahead
\* of the cut, and not a README the options leave out
OpenedEntries(tree, skip_readme) ==
    LET behind == BehindCap(tree, skip_readme)
    IN  { i \in ReachedFiles(tree) :
            /\ \A k \in behind : i < k
            /\ ~(skip_readme /\ IsReadmeName(EntryFileName(tree, tree.entries[i]))) }

\* The report holds an Info- or Warning-level issue that names the file
HasDegradationIssue(path) ==
    \E k \in 1..Len(ScanReport.issues) :
        /\ ScanReport.issues[k].file_path = Some(path)
        /\ ScanReport.issues[k].severity \in { "Info", "Warning" }
        /\ ScanReport.issues[k].category = "Other"

ListedAsSkipped(path) ==
    /\ path \in Range(ScanReport.skipped_files)
    /\ path \notin Range(ScanReport.scanned_files)

WasTruncated(entry) == entry.truncated /\ entry.read \in { "text", "binary" }

WasUnreadable(entry) == entry.read \in { "open_error", "read_error" }

\* C33 as stated: a scan returns a report whatever degrades it, and for
\* each truncated file, each skipped binary file, each unreadable file and
\* a file-cap hit the report is partial and holds an Info- or Warning-level
\* issue for it; each binary or unreadable file is listed in skipped_files
\* and not in scanned_files.
C33_DegradationsAreIssues ==
    DirectoryScanDone =>
        /\ walk.report # None
        /\ \A i \in OpenedEntries(walk.tree, walk.skip_readme) :
              LET entry == walk.tree.entries[i]
              IN  /\ (WasTruncated(entry) \/ entry.read = "binary" \/ WasUnreadable(entry))
                        => ScanReport.partial_scan /\ HasDegradationIssue(entry.path)
                  /\ (entry.read = "binary" \/ WasUnreadable(entry))
                        => ListedAsSkipped(entry.path)
        /\ BehindCap(walk.tree, walk.skip_readme) # {}
              => /\ ScanReport.partial_scan
                 /\ \E k \in 1..Len(ScanReport.issues) :
                       /\ IsCapIssue(ScanReport.issues[k])
                       /\ ScanReport.issues[k].severity = "Warning"

\* C33 amended: as stated for truncated files (an Info issue), unreadable
\* files (a Warning issue) and the file cap (a Warning issue); a skipped
\* binary file makes the report partial and is listed in skipped_files
\* and not in scanned_files, but no issue names it unless it was also
\* truncated.
C33_DegradationsAreVisible ==
    DirectoryScanDone =>
        /\ walk.report # None
        /\ \A i \in OpenedEntries(walk.tree, walk.skip_readme) :
              LET entry == walk.tree.entries[i]
              IN  /\ (WasTruncated(entry) \/ entry.read = "binary" \/ WasUnreadable(entry))
                        => ScanReport.partial_scan
                  /\ (WasTruncated(entry) \/ WasUnreadable(entry))
                        => HasDegradationIssue(entry.path)
                  /\ (entry.read = "binary" /\ ~entry.truncated)
                        => ~HasDegradationIssue(entry.path)
                  /\ (entry.read = "binary" \/ WasUnreadable(entry))
                        => ListedAsSkipped(entry.path)
                  /\ entry.read = "text"
                        => entry.path \notin Range(ScanReport.skipped_files)
        /\ BehindCap(walk.tree, walk.skip_readme) # {}
              => /\ ScanReport.partial_scan
                 /\ \E k \in 1..Len(ScanReport.issues) :
                       /\ IsCapIssue(ScanReport.issues[k])
                       /\ ScanReport.issues[k].severity = "Warning"

\* A scan that met a binary file and an unreadable file and returned a
\* partial report that lists both as skipped, with an issue for the
\* unreadable one alone
C33_Witness ==
    /\ DirectoryScanDone
    /\ walk.report # None
    /\ ScanReport.partial_scan
    /\ LET opened == { walk.tree.entries[i] : i \in OpenedEntries(walk.tree, walk.skip_readme) }
       IN  /\ \E entry \in opened :
                  /\ entry.read = "binary" /\ ~entry.truncated
                  /\ ListedAsSkipped(entry.path)
                  /\ ~HasDegradationIssue(entry.path)
           /\ \E entry \in opened :
                  /\ WasUnreadable(entry)
                  /\ ListedAsSkipped(entry.path)
                  /\ HasDegradationIssue(entry.path)
    /\ Len(ScanReport.skipped_files) = 2

\* A truncated text file: scanned, with its Info issue
TruncatedReported ==
    /\ DirectoryScanDone
    /\ \E i \in OpenedEntries(walk.tree, walk.skip_readme) :
          /\ walk.tree.entries[i].read = "text" /\ walk.tree.entries[i].truncated
          /\ HasDegradationIssue(walk.tree.entries[i].path)
          /\ walk.tree.entries[i].path \in Range(ScanReport.scanned_files)

\* The cap was hit and the report says so
CapHitReported ==
    /\ DirectoryScanDone
    /\ BehindCap(walk.tree, walk.skip_readme) # {}
    /\ ScanReport.partial_scan
    /\ CapIssues # <<>>

----------------------------------------------------------------------------
(* The provenance of the entries of a merged report *)

\* The number of entries the reports ahead of the i-th put into one list
RECURSIVE EntriesBefore(_, _)
EntriesBefore(lists, i) ==
    IF i <= 1 THEN 0 ELSE Len(lists[i - 1]) + EntriesBefore(lists, i - 1)

MergedPairs == 1..Len(text_in)

OwnerOf(i) == text_in[i][1]

ReportIn(i) == text_in[i][2]

\* The k-th entry that the i-th report put into a list of the merged report
MergedEntry(merged, lists, i, k) == merged[EntriesBefore(lists, i) + k]

\* The path or message begins with the name of the plugin
NamedPath(plugin, path) == IsPrefix(plugin.name \o << "/" >>, path)

NamedMessage(plugin, message) == IsPrefix(<< "[" >> \o plugin.name \o << "] " >>, message)

\* The pairs whose plugin's name an issue of the merged report carries
OwnersOfIssue(issue) ==
    { i \in MergedPairs :
        issue.file_path # None /\ NamedPath(OwnerOf(i), issue.file_path[1]) }

IssueLists == [ i \in MergedPairs |-> ReportIn(i).issues ]

\* C34 as stated: every scanned and skipped path, every hard-trigger
\* message and every issue of the merged report carries the name of the
\* plugin whose report it came from, and of no other plugin of the merge.
C34_MergedEntriesNamed ==
    Merged =>
        \A i \in MergedPairs :
            /\ \A k \in 1..Len(ReportIn(i).scanned_files) :
                  NamedPath(OwnerOf(i),
                            MergedEntry(MergedReport.scanned_files,
                                        [ j \in MergedPairs |-> ReportIn(j).scanned_files ], i, k))
            /\ \A k \in 1..Len(ReportIn(i).skipped_files) :
                  NamedPath(OwnerOf(i),
                            MergedEntry(MergedReport.skipped_files,
                                        [ j \in MergedPairs |-> ReportIn(j).skipped_files ], i, k))
            /\ \A k \in 1..Len(ReportIn(i).hard_trigger_issues) :
                  NamedMessage(OwnerOf(i),
                               MergedEntry(MergedReport.hard_trigger_issues,
                                           [ j \in MergedPairs |-> ReportIn(j).hard_trigger_issues ],
                                           i, k))
            /\ \A k \in 1..Len(ReportIn(i).issues) :
                  OwnersOfIssue(MergedEntry(MergedReport.issues, IssueLists, i, k)) = { i }

\* C34 amended: the paths, the messages and the issues that name a file
\* carry the name of their plugin and of no other, and every list of the
\* merged report holds the entries of the reports in the order of the
\* pairs; an issue that names no file is copied as it is and carries no
\* name, so the same such issue from two plugins gives two equal entries.
C34_MergedEntriesNamedWhenTheyHaveAPath ==
    Merged =>
        /\ Len(MergedReport.issues) = EntriesBefore(IssueLists, Len(text_in) + 1)
        /\ Len(MergedReport.scanned_files)
              = EntriesBefore([ j \in MergedPairs |-> ReportIn(j).scanned_files ],
                              Len(text_in) + 1)
        /\ \A i \in MergedPairs :
            /\ \A k \in 1..Len(ReportIn(i).scanned_files) :
                  MergedEntry(MergedReport.scanned_files,
                              [ j \in MergedPairs |-> ReportIn(j).scanned_files ], i, k)
                      = OwnerOf(i).name \o << "/", ReportIn(i).scanned_files[k] >>
            /\ \A k \in 1..Len(ReportIn(i).skipped_files) :
                  MergedEntry(MergedReport.skipped_files,
                              [ j \in MergedPairs |-> ReportIn(j).skipped_files ], i, k)
                      = OwnerOf(i).name \o << "/", ReportIn(i).skipped_files[k] >>
            /\ \A k \in 1..Len(ReportIn(i).hard_trigger_issues) :
                  MergedEntry(MergedReport.hard_trigger_issues,
                              [ j \in MergedPairs |-> ReportIn(j).hard_trigger_issues ], i, k)
                      = << "[" >> \o OwnerOf(i).name \o << "] ", ReportIn(i).hard_trigger_issues[k] >>
            /\ \A k \in 1..Len(ReportIn(i).issues) :
                  LET issue  == ReportIn(i).issues[k]
                      merged == MergedEntry(MergedReport.issues, IssueLists, i, k)
                  IN  IF issue.file_path = None
                      THEN merged = issue /\ OwnersOfIssue(merged) = {}
                      ELSE /\ merged = [ issue EXCEPT
                                           !.file_path = Some(OwnerOf(i).name
                                                                \o << "/", issue.file_path[1] >>) ]
                           /\ OwnersOfIssue(merged) = { i }

\* Two plugins whose scans the file cap cut, the first with a hard
\* trigger: the merged report holds the warning twice, word for word, and
\* the hard-trigger issue under the first plugin's name
C34_Witness ==
    /\ Merged
    /\ Len(text_in) = 2
    /\ ReportIn(1).issues = << HardIssue, CapIssue >>
    /\ ReportIn(2).issues = << CapIssue >>
    /\ MergedReport.issues[2] = CapIssue
    /\ MergedReport.issues[3] = CapIssue
    /\ OwnersOfIssue(MergedReport.issues[1]) = { 1 }
    /\ MergedReport.scanned_files = << NameA \o << "/", "run.sh" >>, NameB \o << "/", "run.sh" >> >>

----------------------------------------------------------------------------
(* The values of install_status *)

\* The values the claim lists
ListedStatuses ==
    { "blocked", "added", "already_added", "installed", "already_installed",
      "failed", "uninstalled", "uninstall_failed" }

\* The values update_plugin writes besides "failed"
UpdateStatuses == { "updated", "already_latest" }

StatusIn(row, values) ==
    row.install_status = None \/ row.install_status[1] \in values

HasUpdateStatus(row) ==
    row.install_status # None /\ row.install_status[1] \in UpdateStatuses

\* C35: in every reachable state each plugin's install_status is absent
\* or one of blocked, added, already_added, installed, already_installed,
\* failed, uninstalled, uninstall_failed.
C35_StatusIsListed ==
    \A i \in 1..Len(store) : StatusIn(store[i], ListedStatuses)

\* C35 amended: install_status is absent or one of blocked, installed,
\* already_installed, failed, uninstalled, uninstall_failed, updated,
\* already_latest; the last two are written by update_plugin alone, and a
\* row that update_plugin has just saved carries one of them or failed.
C35_StatusIsListedOrOfUpdate ==
    /\ \A i \in 1..Len(store) :
          StatusIn(store[i], (ListedStatuses \ { "added", "already_added" }) \cup UpdateStatuses)
    /\ (last.op = "update" /\ last.result = "Ok")
          => \E i \in 1..Len(store) :
                /\ store[i].id = last.id
                /\ store[i].install_status # None
                /\ store[i].install_status[1] \in UpdateStatuses \cup { "failed" }
    /\ (last.op # "update")
          => \A i \in 1..Len(store) :
                HasUpdateStatus(store[i])
                   => \E j \in 1..Len(last.pre) :
                         /\ last.pre[j].id = store[i].id
                         /\ HasUpdateStatus(last.pre[j])

\* An installed plugin that update_plugin has updated
C35_Witness ==
    /\ last.op = "update"
    /\ last.result = "Ok"
    /\ \E i \in 1..Len(store) :
          /\ store[i].id = last.id
          /\ store[i].installed
          /\ store[i].install_status = Some("updated")

----------------------------------------------------------------------------
(* What a scan and a count leave out *)

CountDone == walk.pc = "counted"

\* The regular files under the root that lie in no skipped directory below
\* the root and no deeper than the depth limit, READMEs left out as the
\* options say; the root's own name plays no part
OutsideSkippedDescendants(tree, skip_readme) ==
    { i \in 1..Len(tree.entries) :
        /\ tree.entries[i].kind = "file"
        /\ Len(tree.entries[i].path) <= MAX_SCAN_DEPTH
        /\ \A k \in 1..(Len(tree.entries[i].path) - 1) :
              tree.entries[i].path[k] \notin SKIP_DIR_NAMES
        /\ ~(skip_readme /\ IsReadmeName(EntryFileName(tree, tree.entries[i]))) }

\* C36: whatever the root directory is called, every regular file outside
\* the skipped descendant directories, within the depth limit and ahead
\* of the file cap is listed in scanned_files or skipped_files (READMEs
\* excepted when skip_readme is set), and count_scan_files counts the
\* same files.
C36_OnlySkippedDescendantsLeftOut ==
    LET files == OutsideSkippedDescendants(walk.tree, walk.skip_readme)
    IN  /\ (DirectoryScanDone /\ Cardinality(files) < MAX_FILES)
              => \A i \in files : walk.tree.entries[i].path \in OpenedFiles
        /\ (CountDone /\ Cardinality(files) < MAX_FILES)
              => walk.total = Cardinality(files)

----------------------------------------------------------------------------
(* A scan command among the other commands *)

\* What of a row the install, uninstall and reconciliation commands own
InstallState(row) ==
    [ installed           |-> row.installed,
      installed_at        |-> row.installed_at,
      installed_version   |-> row.installed_version,
      install_status      |-> row.install_status,
      install_log         |-> row.install_log,
      claude_scope        |-> row.claude_scope,
      claude_enabled      |-> row.claude_enabled,
      claude_install_path |-> row.claude_install_path,
      claude_last_updated |-> row.claude_last_updated ]

RescanSaved == last.op = "rescan_save"

\* C37: the save of a scan changes only security_score, security_level,
\* security_issues and scanned_at of the row; the install state that an
\* uninstall, a confirm or a reconciliation committed after the scan read
\* the row is still in the table after the save.
C37_RescanKeepsInstallState ==
    RescanSaved =>
        /\ InstallState(RowAfter) = InstallState(RowBefore)
        /\ OtherRows(store, last.id) = OtherRows(last.pre, last.id)

----------------------------------------------------------------------------
(* What run_command leaves behind *)

\* run_command is not under way: run is between two commands or has returned
BetweenCommands == driver.pc \in { "next", "returned" }

\* C38: when run_command returns, on whatever path, every child it spawned
\* has been sent kill and the reader thread it started has been joined or
\* detached on purpose.
C38_KilledAndJoinedOnReturn ==
    BetweenCommands =>
        /\ driver.unkilled = {}
        /\ driver.reader # "none" => driver.reader_handle \in { "joined", "detached" }

----------------------------------------------------------------------------
(* What a report that is not partial says *)

\* The regular files under the root that no skipped directory holds, at
\* any depth, READMEs left out as the options say
FilesToRead(tree, skip_readme) ==
    { i \in 1..Len(tree.entries) :
        /\ tree.entries[i].kind = "file"
        /\ \A k \in 0..(Len(tree.entries[i].path) - 1) :
              ~SkipsDirectory(IF k = 0 THEN tree.root_name ELSE tree.entries[i].path[k])
        /\ ~(skip_readme /\ IsReadmeName(EntryFileName(tree, tree.entries[i]))) }

\* The files a traversal bound kept the scan from opening: below the depth
\* limit, or behind the cut of the file cap
LeftByBounds(tree, skip_readme) ==
    LET behind == BehindCap(tree, skip_readme)
    IN  { i \in FilesToRead(tree, skip_readme) :
            \/ Len(tree.entries[i].path) > MAX_SCAN_DEPTH
            \/ \E k \in behind : k <= i }

\* C39: a scan that left a regular file unread because of the depth limit
\* or the file cap returns a report with partial_scan = true; in a report
\* with partial_scan = false every file to read was scanned.
C39_BoundsMakePartial ==
    DirectoryScanDone =>
        /\ LeftByBounds(walk.tree, walk.skip_readme) # {} => ScanReport.partial_scan
        /\ ~ScanReport.partial_scan
              => \A i \in FilesToRead(walk.tree, walk.skip_readme) :
                    walk.tree.entries[i].path \in Range(ScanReport.scanned_files)

----------------------------------------------------------------------------
(* sync_claude_installed_state from the text `claude plugin list --json`  *)
(* printed: the listing is what parse_json_output makes of the text       *)

\* The entry the text {"id":"p"} stands for
EntryOfText ==
    [ id |-> PluginSpecOf(NameA, MarketM), version |-> None,
      scope |-> Some("project"), enabled |-> None,
      install_path |-> None,
      installed_at |-> Some("yesterday"),
      last_updated |-> None ]

\* Vec<ClaudeInstalledPluginEntry> of a parsed value
EntriesOfValue(value) ==
    IF value = EntriesPiece THEN << EntryOfText >> ELSE <<>>

\* [{"id":"p"  : the output cut off inside the first entry
CutInEntry == <<"[", "{", "id=p">>

\* [{"id":"p"} : the output cut off before the array is closed
CutInArray == <<"[", "{", "id=p", "}">>

\* Outputs that hold no listing: nothing, cut-off output, words, a progress
\* object, a log tag
UnobtainedOutputs ==
    { <<>>, CutInEntry, CutInArray, WordPiece, ProgressPiece, LogTagPiece,
      WordPiece \o CutInEntry }

\* Outputs that hold a listing, alone or behind a line of words
ObtainedOutputs ==
    { EntriesPiece, EmptyArrayPiece, WordPiece \o EntriesPiece }

PluginListOutputs == UnobtainedOutputs \cup ObtainedOutputs

SyncOutput(cli_found, marketplaces, plugins_output) ==
    /\ CanStep
    /\ LET parsed == parse_json_output(plugins_output)
           cli    == << CommandOutput("plugin marketplace list", marketplaces),
                        CommandOutput("plugin list", plugins_output) >>
       IN  IF WhichFails(cli_found)
           THEN /\ last' = [ LastOf("sync", <<>>, "Ok", <<>>, None, store)
                               EXCEPT !.cli_found = FALSE ]
                /\ UNCHANGED store
           ELSE IF parsed = None
           THEN /\ last' = LastOf("sync", <<>>, "Err", cli, None, store)
                /\ UNCHANGED store
           ELSE /\ store' = SyncRows(store, marketplaces, EntriesOfValue(parsed[1]))
                /\ last' = LastOf("sync", <<>>, "Ok", cli,
                                  Some(<<marketplaces, EntriesOfValue(parsed[1])>>),
                                  store)
    /\ UNCHANGED gate
    /\ LifecycleFrame

NextSync ==
    \/ \E config \in FeaturedConfigs : SyncFeatured(config)
    \/ \E cli_found \in BOOLEAN, marketplaces \in MarketplaceListings,
          plugins_output \in PluginListOutputs :
          SyncOutput(cli_found, marketplaces, plugins_output)

SpecSync == Init /\ [][NextSync]_vars

\* The last reconciliation found the CLI and was given an output that
\* holds no listing
SyncGivenNoListing ==
    /\ last.op = "sync"
    /\ last.cli_found
    /\ Len(last.cli) = 2
    /\ last.cli[2].output \in UnobtainedOutputs

SyncWithoutCli == last.op = "sync" /\ ~last.cli_found

InstalledIds(rows) == { rows[i].id : i \in { k \in 1..Len(rows) : rows[k].installed } }

\* C40: a reconciliation whose installed-plugin output holds no listing
\* (empty, cut off, or not JSON) returns an error and leaves every row as it
\* was; one that finds no CLI binary returns Ok and leaves every row as it
\* was; in both cases every plugin installed before is installed after.
C40_NoListingNoChange ==
    /\ SyncGivenNoListing =>
          /\ last.result = "Err"
          /\ store = last.pre
          /\ InstalledIds(last.pre) \subseteq InstalledIds(store)
    /\ SyncWithoutCli =>
          /\ last.result = "Ok"
          /\ store = last.pre
          /\ InstalledIds(last.pre) \subseteq InstalledIds(store)

C40_Witness ==
    /\ SyncGivenNoListing
    /\ last.cli[2].output = CutInArray
    /\ InstalledIds(last.pre) # {}
    /\ last.result = "Err"

\* The missing binary met with installed plugins in the table
SyncWithoutCliOverInstalled ==
    SyncWithoutCli /\ InstalledIds(last.pre) # {}

====
